---- MODULE Spec2Model ----
\* Verification model of the monty interpreter core: resource tracker,
\* reference-counted heap, namespaces, and the suspend/resume protocol
\* for external function calls.
EXTENDS Integers, Sequences, FiniteSets, TLC

VARIABLES
    trk,        \* SpecTracker: the LimitedTracker under test
    trkLog,     \* SpecTracker: results of the on_allocate calls made so far
    trkLast,    \* SpecTracker: the latest on_allocate call: size, tracker before and after
    cns,        \* SpecNs: the Namespaces of a run
    ctrk,       \* SpecNs: the run's LimitedTracker
    active,     \* SpecNs: namespace ids of the function calls now executing, outermost first
    lastCall,   \* SpecNs: outcome of the latest function call entry
    hp,         \* SpecHeap: the Heap
    hns,        \* SpecHeap: the Namespaces (global namespace and one function namespace)
    temps,      \* SpecHeap: values owned by the evaluator (results of evaluate_use)
    allocated,  \* SpecHeap: the Heap::allocate calls made so far, in order
    progId,     \* Spec: the program of the run
    run,        \* Spec: the run's state: namespaces, heap, snapshot tracker
    out,        \* Spec: the lines the host's PrintWriter received
    innerExt,   \* Spec: a function frame has exited with FrameExit::ExternalCall
    progress,   \* Spec: the RunProgress last handed to the host
    resumes,    \* Spec: the return values the host supplied so far
    calls,      \* Spec: the FunctionCalls surfaced so far, with the recorded index
    loads,      \* Spec: number of dump/load round trips made
    evl,        \* SpecEval: one evaluation of an expression: input, machine, result
    tk,         \* SpecTake: heap slots whose payload is taken out, and the calls in progress
    gcs,        \* SpecGc: a run under a tracker that schedules garbage collection
    dct,        \* SpecDict: a dict and the operations applied to it
    aux         \* SpecVar and the other single-operation specifications: input and result

varsTracker == <<trk, trkLog, trkLast>>
varsNs == <<cns, ctrk, active, lastCall>>
varsHeap == <<hp, hns, temps, allocated>>
varsRun == <<progId, run, out, innerExt, progress, resumes, calls, loads>>
varsMore == <<evl, tk, gcs, dct, aux>>
varsOld == <<varsTracker, varsNs, varsHeap, varsRun>>
vars == <<trk, trkLog, trkLast, cns, ctrk, active, lastCall, hp, hns, temps, allocated,
          progId, run, out, innerExt, progress, resumes, calls, loads,
          evl, tk, gcs, dct, aux>>

\* ---------------------------------------------------------------------------
\* Option<T>
\* ---------------------------------------------------------------------------
Some(x) == [some |-> TRUE, v |-> x]
NoneOpt == [some |-> FALSE, v |-> 0]

\* ---------------------------------------------------------------------------
\* Bounds of the model
\* ---------------------------------------------------------------------------
MaxTrackerCalls == 5      \* on_allocate calls explored per tracker
MaxAllocLimit == 3        \* largest max_allocations explored
MaxMemLimit == 4          \* largest max_memory explored
MaxSize == 2              \* largest allocation size explored
MaxNsCalls == 6           \* function calls explored per run (SpecNs)
MaxNsSize == 2            \* largest function namespace_size explored
MaxDepthLimit == 3        \* largest max_recursion_depth explored
MaxHeap == 2              \* heap slots allocated per run (SpecHeap)
MaxTemps == 2             \* values the evaluator owns at once (SpecHeap)
MaxListLen == 1           \* longest list payload (SpecHeap)
MaxExtBuf == 1            \* longest external-return buffer (SpecHeap)
MaxRefcount == 3          \* largest refcount explored (SpecHeap)
MaxLoads == 2             \* dump/load round trips per run (Spec)
EvalExprCount == 17       \* expressions evaluated (SpecEval)
MaxCallDepth == 3         \* calls of heap-allocated callables in progress (SpecTake)
MaxAppends == 3           \* list appends per run (SpecTake)
MaxStrLen == 3            \* longest string built in place (SpecHash)
MaxDictOps == 3            \* dict operations per run (SpecDict)
MaxGcInterval == 2        \* largest gc_interval explored (SpecGc)
MaxRuns == 2              \* runs of one executor
MaxRunInputs == 2         \* input values passed to one run
ExecCount == 5            \* compiled programs of SpecRuns

MaxArgOps == 2            \* operations of SpecArgs

MaxIAddLen == 3           \* length of the list before a += a

MaxConvItems == 2         \* items of a container of SpecConv

MaxReprDepth == 3         \* nested py_repr calls the native stack holds

MaxInterns == 4           \* intern and intern_bytes calls
MaxCalls == 3             \* Function::call calls in SpecCall
DropObjects == 3          \* lists on the heap of SpecDrop
MaxDropItems == 2         \* items of a list in SpecDrop
MaxHeld == 2              \* references to one object held outside the heap
MaxPairs == 2             \* pairs of a dict literal in SpecPairs
MaxPairOps == 2           \* dict literals evaluated in SpecPairs
MaxPosCalls == 6          \* calls on the SnapshotTracker in SpecPos
MaxPosIndex == 2          \* statement index given to record in SpecPos

GcProgCount == 6          \* programs run under garbage collection (SpecGc)

\* ---------------------------------------------------------------------------
\* ResourceError / Result<(), ResourceError>
\* ---------------------------------------------------------------------------
ResOk == [kind |-> "Ok", limit |-> 0, n |-> 0]
ErrAllocation(limit, count) == [kind |-> "Allocation", limit |-> limit, n |-> count]
ErrMemory(limit, used) == [kind |-> "Memory", limit |-> limit, n |-> used]
ErrRecursion(limit, depth) == [kind |-> "Recursion", limit |-> limit, n |-> depth]

\* ---------------------------------------------------------------------------
\* LimitedTracker
\* ---------------------------------------------------------------------------
ResourceLimits(maxAlloc, maxMem, gcInt, maxDepth) ==
    [max_allocations |-> maxAlloc, max_memory |-> maxMem,
     gc_interval |-> gcInt, max_recursion_depth |-> maxDepth]

LimitedTracker_new(limits) ==
    [limits |-> limits, allocation_count |-> 0, current_memory |-> 0,
     allocations_since_gc |-> 0]

NoLimits == ResourceLimits(NoneOpt, NoneOpt, NoneOpt, NoneOpt)

\* impl ResourceTracker for NoLimitTracker: the tracker is its one field,
\* allocations_since_gc
DEFAULT_GC_INTERVAL == 100000
NoLimitTracker_default == [allocations_since_gc |-> 0]
NoLimit_on_allocate(t) == [t EXCEPT !.allocations_since_gc = @ + 1]
NoLimit_should_gc(t) == t.allocations_since_gc >= DEFAULT_GC_INTERVAL
NoLimit_on_gc_complete(t) == [t EXCEPT !.allocations_since_gc = 0]

\* on_allocate with the count test off by one (> instead of >=)
on_allocate_gt(t, size) ==
    IF t.limits.max_allocations.some /\ t.allocation_count > t.limits.max_allocations.v
    THEN [t |-> t, res |-> ErrAllocation(t.limits.max_allocations.v, t.allocation_count + 1)]
    ELSE IF t.limits.max_memory.some /\ t.current_memory + size > t.limits.max_memory.v
    THEN [t |-> t, res |-> ErrMemory(t.limits.max_memory.v, t.current_memory + size)]
    ELSE [t |-> [t EXCEPT !.allocation_count = @ + 1,
                          !.current_memory = @ + size,
                          !.allocations_since_gc = @ + 1],
          res |-> ResOk]

\* on_allocate with the memory test off by one (>= instead of >)
on_allocate_ge(t, size) ==
    IF t.limits.max_allocations.some /\ t.allocation_count >= t.limits.max_allocations.v
    THEN [t |-> t, res |-> ErrAllocation(t.limits.max_allocations.v, t.allocation_count + 1)]
    ELSE IF t.limits.max_memory.some /\ t.current_memory + size >= t.limits.max_memory.v
    THEN [t |-> t, res |-> ErrMemory(t.limits.max_memory.v, t.current_memory + size)]
    ELSE [t |-> [t EXCEPT !.allocation_count = @ + 1,
                          !.current_memory = @ + size,
                          !.allocations_since_gc = @ + 1],
          res |-> ResOk]

on_allocate(t, size) ==
    IF t.limits.max_allocations.some /\ t.allocation_count >= t.limits.max_allocations.v
    THEN [t |-> t, res |-> ErrAllocation(t.limits.max_allocations.v, t.allocation_count + 1)]
    ELSE IF t.limits.max_memory.some /\ t.current_memory + size > t.limits.max_memory.v
    THEN [t |-> t, res |-> ErrMemory(t.limits.max_memory.v, t.current_memory + size)]
    ELSE [t |-> [t EXCEPT !.allocation_count = @ + 1,
                          !.current_memory = @ + size,
                          !.allocations_since_gc = @ + 1],
          res |-> ResOk]

\* on_free with a plain subtraction in place of the saturating one
on_free_plain(t, size) ==
    [t EXCEPT !.current_memory = @ - size]

\* saturating_sub
on_free(t, size) ==
    [t EXCEPT !.current_memory = IF @ >= size THEN @ - size ELSE 0]

should_gc(t) ==
    t.limits.gc_interval.some /\ t.allocations_since_gc >= t.limits.gc_interval.v

on_gc_complete(t) == [t EXCEPT !.allocations_since_gc = 0]


\* check_recursion_depth(depth): Err(Recursion) once depth has reached the limit
check_recursion_depth(t, depth) ==
    IF t.limits.max_recursion_depth.some /\ depth >= t.limits.max_recursion_depth.v
    THEN ErrRecursion(t.limits.max_recursion_depth.v, depth + 1)
    ELSE ResOk

\* ---------------------------------------------------------------------------
\* Value: immediates and heap references.  v holds the payload of the variant
\* (the integer, the function id, the heap id).
\* ---------------------------------------------------------------------------
VInt(n) == [t |-> "Int", v |-> n]
VNone == [t |-> "None", v |-> 0]
VUndefined == [t |-> "Undefined", v |-> 0]
VExtFunction(id) == [t |-> "ExtFunction", v |-> id]
VFunction(id) == [t |-> "Function", v |-> id]
VBuiltin(id) == [t |-> "Builtin", v |-> id]
VRef(id) == [t |-> "Ref", v |-> id]
VBool(b) == [t |-> "Bool", v |-> IF b THEN 1 ELSE 0]

\* std::mem::size_of::<Value>()
SizeOfValue == 16

\* ---------------------------------------------------------------------------
\* Heap: arena of reference-counted objects.  Heap id i is objects[i + 1].
\* ---------------------------------------------------------------------------
HeapStr(s) == [kind |-> "Str", items |-> <<>>, s |-> s]
HeapList(items) == [kind |-> "List", items |-> items, s |-> 0]
HeapTuple(items) == [kind |-> "Tuple", items |-> items, s |-> 0]
HeapDict(items) == [kind |-> "Dict", items |-> items, s |-> 0]
HeapCell(value) == [kind |-> "Cell", items |-> <<value>>, s |-> 0]
NoData == [kind |-> "None", items |-> <<>>, s |-> 0]

\* DefaultHasher over the string contents
StrHash(s) == (31 * s + 7) % 64

\* Value::py_hash_u64: immediates hash by value, a Ref by the cached hash of
\* its slot
py_hash_u64(heap, v) ==
    CASE v.t = "Ref" -> heap.objects[v.v + 1].cached_hash
      [] v.t \in {"Int", "Bool", "None"} -> Some(v.v % 64)
      [] OTHER -> NoneOpt

\* DefaultHasher fed with the element hashes in order
RECURSIVE TupleHash(_, _)
TupleHash(hashes, acc) ==
    IF hashes = <<>> THEN acc
    ELSE TupleHash(Tail(hashes), (31 * acc + Head(hashes) + 1) % 64)

\* compute_hash_if_immutable that hashes every tuple, taking 0 for an element
\* without a hash
compute_hash_if_immutable_any_tuple(heap, data) ==
    CASE data.kind = "Str" -> Some(StrHash(data.s))
      [] data.kind = "Tuple" ->
            Some(TupleHash([i \in 1..Len(data.items) |->
                              LET h == py_hash_u64(heap, data.items[i]) IN
                              IF h.some THEN h.v ELSE 0], 3))
      [] OTHER -> NoneOpt

compute_hash_if_immutable(heap, data) ==
    CASE data.kind = "Str" -> Some(StrHash(data.s))
      [] data.kind = "Tuple" ->
            IF \E i \in 1..Len(data.items) : ~py_hash_u64(heap, data.items[i]).some
            THEN NoneOpt
            ELSE Some(TupleHash([i \in 1..Len(data.items) |->
                                   py_hash_u64(heap, data.items[i]).v], 3))
      [] OTHER -> NoneOpt

FreedSlot == [live |-> FALSE, refcount |-> 0, data |-> NoData, cached_hash |-> NoneOpt]

EmptyHeap == [objects |-> <<>>, panic |-> FALSE]

HeapLive(heap, id) == id + 1 <= Len(heap.objects) /\ heap.objects[id + 1].live

\* allocate with a free list: the lowest vacated slot is handed out again
Heap_allocate_reuse(heap, data) ==
    LET obj == [live |-> TRUE, refcount |-> 1, data |-> data,
                cached_hash |-> compute_hash_if_immutable(heap, data)]
        free == {i \in 1..Len(heap.objects) : ~heap.objects[i].live}
    IN  IF free = {}
        THEN [heap |-> [heap EXCEPT !.objects = Append(@, obj)], id |-> Len(heap.objects)]
        ELSE LET i == CHOOSE j \in free : \A k \in free : j <= k
             IN  [heap |-> [heap EXCEPT !.objects[i] = obj], id |-> i - 1]

Heap_allocate(heap, data) ==
    [heap |-> [heap EXCEPT !.objects = Append(@,
                  [live |-> TRUE, refcount |-> 1, data |-> data,
                   cached_hash |-> compute_hash_if_immutable(heap, data)])],
     id |-> Len(heap.objects)]

inc_ref(heap, id) ==
    IF HeapLive(heap, id)
    THEN [heap EXCEPT !.objects[id + 1].refcount = @ + 1]
    ELSE [heap EXCEPT !.panic = TRUE]

\* List::py_dec_ref_ids: the ids of the Ref items, in order
RECURSIVE py_dec_ref_ids(_)
py_dec_ref_ids(items) ==
    IF Len(items) = 0 THEN <<>>
    ELSE (IF items[1].t = "Ref" THEN <<items[1].v>> ELSE <<>>)
         \o py_dec_ref_ids(Tail(items))

enqueue_children(data, stack) == stack \o py_dec_ref_ids(data.items)

\* dec_ref that vacates the slot and leaves what it owned alone
RECURSIVE dec_ref_loop_shallow(_, _)
dec_ref_loop_shallow(heap, stack) ==
    IF Len(stack) = 0 THEN heap
    ELSE LET current == stack[Len(stack)]
             rest == SubSeq(stack, 1, Len(stack) - 1)
         IN  IF ~HeapLive(heap, current)
             THEN [heap EXCEPT !.panic = TRUE]
             ELSE IF heap.objects[current + 1].refcount > 1
             THEN dec_ref_loop_shallow([heap EXCEPT !.objects[current + 1].refcount = @ - 1],
                                       rest)
             ELSE dec_ref_loop_shallow([heap EXCEPT !.objects[current + 1] = FreedSlot], rest)

\* dec_ref: the work-stack loop
RECURSIVE dec_ref_loop(_, _)
dec_ref_loop(heap, stack) ==
    IF Len(stack) = 0 THEN heap
    ELSE LET current == stack[Len(stack)]
             rest == SubSeq(stack, 1, Len(stack) - 1)
         IN  IF ~HeapLive(heap, current)
             THEN [heap EXCEPT !.panic = TRUE]
             ELSE IF heap.objects[current + 1].refcount > 1
             THEN dec_ref_loop([heap EXCEPT !.objects[current + 1].refcount = @ - 1], rest)
             ELSE dec_ref_loop([heap EXCEPT !.objects[current + 1] = FreedSlot],
                               enqueue_children(heap.objects[current + 1].data, rest))

dec_ref(heap, id) == dec_ref_loop(heap, <<id>>)

\* Value::clone_with_heap / Value::drop_with_heap
Value_clone_with_heap(heap, v) == IF v.t = "Ref" THEN inc_ref(heap, v.v) ELSE heap
Value_drop_with_heap(heap, v) == IF v.t = "Ref" THEN dec_ref(heap, v.v) ELSE heap

\* Number of Ref(id) values in a sequence of values
RECURSIVE RefsIn(_, _)
RefsIn(values, id) ==
    IF Len(values) = 0 THEN 0
    ELSE (IF values[1] = VRef(id) THEN 1 ELSE 0) + RefsIn(Tail(values), id)

RECURSIVE clone_all_with_heap(_, _)
clone_all_with_heap(heap, values) ==
    IF Len(values) = 0 THEN heap
    ELSE clone_all_with_heap(Value_clone_with_heap(heap, values[1]), Tail(values))

RECURSIVE drop_all_with_heap(_, _)
drop_all_with_heap(heap, values) ==
    IF Len(values) = 0 THEN heap
    ELSE drop_all_with_heap(Value_drop_with_heap(heap, values[1]), Tail(values))

\* ---------------------------------------------------------------------------
\* Namespaces
\* ---------------------------------------------------------------------------
GLOBAL_NS_IDX == 0

Namespaces_new(namespace) ==
    [stack |-> <<namespace>>, reuse_ids |-> <<>>,
     ext_return_values |-> <<>>, next_ext_return_value |-> 0]

\* new_namespace that charges the memory before it checks the depth
new_namespace_charge_first(ns, t, namespace_size) ==
    LET current_depth == Len(ns.stack) - 1
        size == namespace_size * SizeOfValue
        charged == on_allocate(t, size)
        depthRes == check_recursion_depth(charged.t, current_depth)
    IN  IF charged.res.kind # "Ok"
        THEN [ns |-> ns, t |-> charged.t, res |-> charged.res, id |-> 0]
        ELSE IF depthRes.kind # "Ok"
        THEN [ns |-> ns, t |-> charged.t, res |-> depthRes, id |-> 0]
        ELSE IF Len(ns.reuse_ids) > 0
        THEN [ns |-> [ns EXCEPT !.reuse_ids = SubSeq(@, 1, Len(@) - 1)],
              t |-> charged.t, res |-> ResOk,
              id |-> ns.reuse_ids[Len(ns.reuse_ids)]]
        ELSE [ns |-> [ns EXCEPT !.stack = Append(@, <<>>)],
              t |-> charged.t, res |-> ResOk, id |-> Len(ns.stack)]

\* new_namespace that reads the free list without taking the index off it
new_namespace_peek(ns, t, namespace_size) ==
    LET current_depth == Len(ns.stack) - 1
        depthRes == check_recursion_depth(t, current_depth)
        size == namespace_size * SizeOfValue
        charged == on_allocate(t, size)
    IN  IF depthRes.kind # "Ok"
        THEN [ns |-> ns, t |-> t, res |-> depthRes, id |-> 0]
        ELSE IF charged.res.kind # "Ok"
        THEN [ns |-> ns, t |-> charged.t, res |-> charged.res, id |-> 0]
        ELSE IF Len(ns.reuse_ids) > 0
        THEN [ns |-> ns, t |-> charged.t, res |-> ResOk,
              id |-> ns.reuse_ids[Len(ns.reuse_ids)]]
        ELSE [ns |-> [ns EXCEPT !.stack = Append(@, <<>>)],
              t |-> charged.t, res |-> ResOk, id |-> Len(ns.stack)]

\* new_namespace: recursion check, then memory charge, then reuse or push.
\* Namespace ids are 0-based: namespace id i is stack[i + 1].
new_namespace(ns, t, namespace_size) ==
    LET current_depth == Len(ns.stack) - 1
        depthRes == check_recursion_depth(t, current_depth)
        size == namespace_size * SizeOfValue
        charged == on_allocate(t, size)
    IN  IF depthRes.kind # "Ok"
        THEN [ns |-> ns, t |-> t, res |-> depthRes, id |-> 0]
        ELSE IF charged.res.kind # "Ok"
        THEN [ns |-> ns, t |-> charged.t, res |-> charged.res, id |-> 0]
        ELSE IF Len(ns.reuse_ids) > 0
        THEN [ns |-> [ns EXCEPT !.reuse_ids = SubSeq(@, 1, Len(@) - 1)],
              t |-> charged.t, res |-> ResOk,
              id |-> ns.reuse_ids[Len(ns.reuse_ids)]]
        ELSE [ns |-> [ns EXCEPT !.stack = Append(@, <<>>)],
              t |-> charged.t, res |-> ResOk, id |-> Len(ns.stack)]

\* drop_with_heap(namespace_id): return the memory, drop the values, pool the id
Namespaces_drop_with_heap(ns, heap, t, namespace_id) ==
    LET namespace == ns.stack[namespace_id + 1]
        size == Len(namespace) * SizeOfValue
    IN  [ns |-> [ns EXCEPT !.stack[namespace_id + 1] = <<>>,
                           !.reuse_ids = Append(@, namespace_id)],
         heap |-> drop_all_with_heap(heap, namespace),
         t |-> on_free(t, size)]

\* push_ext_return_value that leaves the cursor where it is
push_ext_return_value_keep(ns, return_value) ==
    [ns EXCEPT !.ext_return_values = Append(@, return_value)]

\* push_ext_return_value: reset the cursor, append the value
push_ext_return_value(ns, return_value) ==
    [ns EXCEPT !.next_ext_return_value = 0,
               !.ext_return_values = Append(@, return_value)]

\* take_ext_return_value that does not advance the cursor
take_ext_return_value_stay(ns, heap) ==
    IF ns.next_ext_return_value < Len(ns.ext_return_values)
    THEN LET value == ns.ext_return_values[ns.next_ext_return_value + 1]
         IN  [ns |-> ns, heap |-> Value_clone_with_heap(heap, value),
              some |-> TRUE, value |-> value]
    ELSE [ns |-> ns, heap |-> heap, some |-> FALSE, value |-> VNone]

\* take_ext_return_value: a clone of the value under the cursor, if any
take_ext_return_value(ns, heap) ==
    IF ns.next_ext_return_value < Len(ns.ext_return_values)
    THEN LET value == ns.ext_return_values[ns.next_ext_return_value + 1]
         IN  [ns |-> [ns EXCEPT !.next_ext_return_value = @ + 1],
              heap |-> Value_clone_with_heap(heap, value),
              some |-> TRUE, value |-> value]
    ELSE [ns |-> ns, heap |-> heap, some |-> FALSE, value |-> VNone]

\* clear_ext_return_values (build without ref-count-panic): Vec::clear, the
\* values are not dropped with the heap
clear_ext_return_values(ns, heap) ==
    [ns |-> [ns EXCEPT !.ext_return_values = <<>>, !.next_ext_return_value = 0],
     heap |-> heap]

\* iter_heap_ids: the heap ids referenced by the values of all namespaces
iter_heap_ids(ns) ==
    UNION {{ns.stack[n][i].v : i \in {j \in 1..Len(ns.stack[n]) : ns.stack[n][j].t = "Ref"}}
           : n \in 1..Len(ns.stack)}

\* ---------------------------------------------------------------------------
\* Garbage collection: mark from the roots through the payloads, sweep the
\* live slots that were not marked
\* ---------------------------------------------------------------------------
RECURSIVE mark(_, _)
mark(heap, marked) ==
    LET children == {c \in 0..(Len(heap.objects) - 1) :
                        \E id \in marked :
                            /\ HeapLive(heap, id)
                            /\ \E i \in 1..Len(heap.objects[id + 1].data.items) :
                                  heap.objects[id + 1].data.items[i] = VRef(c)}
    IN  IF children \subseteq marked THEN marked ELSE mark(heap, marked \cup children)

collect_garbage(heap, roots) ==
    LET reachable == mark(heap, roots) IN
    [heap EXCEPT !.objects =
        [i \in 1..Len(heap.objects) |->
            IF heap.objects[i].live /\ (i - 1) \notin reachable
            THEN FreedSlot ELSE heap.objects[i]]]

\* ---------------------------------------------------------------------------
\* Prepared programs.  Identifiers are resolved to (scope, slot); a callable is
\* a builtin or a name; the last expression of a module is its Return node.
\* ---------------------------------------------------------------------------
Global(slot) == [scope |-> "Global", slot |-> slot]
Local(slot) == [scope |-> "Local", slot |-> slot]
CellIdent(slot) == [scope |-> "Cell", slot |-> slot]

Constant(n) == [k |-> "Constant", n |-> n]
Name(ident) == [k |-> "Name", ident |-> ident]
Op(left, op, right) == [k |-> "Op", left |-> left, op |-> op, right |-> right]
Call(callable, args) == [k |-> "Call", callable |-> callable, args |-> args]
AttrCall(object, attr, args) == [k |-> "AttrCall", object |-> object, attr |-> attr, args |-> args]
ListExpr == [k |-> "List"]
Subscript(object, index) == [k |-> "Subscript", object |-> object, index |-> index]
DictExpr(pairs) == [k |-> "Dict", pairs |-> pairs]

CallableBuiltin(b) == [k |-> "Builtin", b |-> b]
CallableName(ident) == [k |-> "Name", ident |-> ident]

NodeExpr(e) == [k |-> "Expr", e |-> e]
NodeAssign(target, e) == [k |-> "Assign", target |-> target, e |-> e]
NodeReturn(e) == [k |-> "Return", e |-> e]
NodeFunctionDef(target, f_id) == [k |-> "FunctionDef", target |-> target, f_id |-> f_id]

\* Global slots 0 and 1 hold the declared external functions ext_fn and ext_g
ExtCount == 2
GlobalSize == 4
CallExt(slot, n) == Call(CallableName(Global(slot)), <<Constant(n)>>)
CallFn(slot, args) == Call(CallableName(Global(slot)), args)

\* Interns::get_function: the guest functions, by function id
Functions ==
    << \* 0: def inner(): return ext_fn(5)
       [body |-> <<NodeReturn(CallExt(0, 5))>>, namespace_size |-> 0, param_count |-> 0],
       \* 1: def outer(): return inner() + 1      (inner is global slot 2)
       [body |-> <<NodeReturn(Op(CallFn(2, <<>>), "Add", Constant(1)))>>,
        namespace_size |-> 0, param_count |-> 0],
       \* 2: def inc(a): b = a + 1; return b
       [body |-> <<NodeAssign(Local(1), Op(Name(Local(0)), "Add", Constant(1))),
                   NodeReturn(Name(Local(1)))>>,
        namespace_size |-> 2, param_count |-> 1] >>

ProgCount == 12

\* The module body of each program
Nodes(pid) ==
    CASE pid = 1 ->  \* x = ext_fn(1); y = ext_fn(2); x + y
            <<NodeAssign(Global(2), CallExt(0, 1)),
              NodeAssign(Global(3), CallExt(0, 2)),
              NodeReturn(Op(Name(Global(2)), "Add", Name(Global(3))))>>
      [] pid = 2 ->  \* ext_fn(42) + 1
            <<NodeReturn(Op(CallExt(0, 42), "Add", Constant(1)))>>
      [] pid = 3 ->  \* ext_fn(1) - ext_g(2)
            <<NodeReturn(Op(CallExt(0, 1), "Sub", CallExt(1, 2)))>>
      [] pid = 4 ->  \* x = ext_fn(1) - ext_g(2) - ext_fn(3); x
            <<NodeAssign(Global(2),
                  Op(Op(CallExt(0, 1), "Sub", CallExt(1, 2)), "Sub", CallExt(0, 3))),
              NodeReturn(Name(Global(2)))>>
      [] pid = 5 ->  \* ext_fn(print(7))
            <<NodeReturn(Call(CallableName(Global(0)),
                  <<Call(CallableBuiltin("Print"), <<Constant(7)>>)>>))>>
      [] pid = 6 ->  \* l = []; y = ext_fn(l.append(1)); len(l)
            <<NodeAssign(Global(2), ListExpr),
              NodeAssign(Global(3), Call(CallableName(Global(0)),
                  <<AttrCall(Global(2), "append", <<Constant(1)>>)>>)),
              NodeReturn(Call(CallableBuiltin("Len"), <<Name(Global(2))>>))>>
      [] pid = 7 ->  \* def inner(): return ext_fn(5)  /  inner()
            <<NodeFunctionDef(Global(2), 0),
              NodeReturn(CallFn(2, <<>>))>>
      [] pid = 8 ->  \* def inner() ..; def outer(): return inner() + 1  /  outer()
            <<NodeFunctionDef(Global(2), 0),
              NodeFunctionDef(Global(3), 1),
              NodeReturn(CallFn(3, <<>>))>>
      [] pid = 9 ->  \* def inc(a) ..  /  y = ext_fn(inc(1)); inc(y)
            <<NodeFunctionDef(Global(2), 2),
              NodeAssign(Global(3), Call(CallableName(Global(0)),
                  <<CallFn(2, <<Constant(1)>>)>>)),
              NodeReturn(CallFn(2, <<Name(Global(3))>>))>>
      [] pid = 10 -> \* def inner() ..  /  ext_g(1) + inner()
            <<NodeFunctionDef(Global(2), 0),
              NodeReturn(Op(CallExt(1, 1), "Add", CallFn(2, <<>>)))>>
      [] pid = 11 -> \* print(ext_fn(1))
            <<NodeExpr(Call(CallableBuiltin("Print"), <<CallExt(0, 1)>>))>>
      [] OTHER ->       \* l = []; ext_fn(l.append(1)) - ext_g(len(l))
            <<NodeAssign(Global(2), ListExpr),
              NodeReturn(Op(Call(CallableName(Global(0)),
                                 <<AttrCall(Global(2), "append", <<Constant(1)>>)>>),
                            "Sub",
                            Call(CallableName(Global(1)),
                                 <<Call(CallableBuiltin("Len"), <<Name(Global(2))>>)>>)))>>

\* ---------------------------------------------------------------------------
\* Evaluation.  The machine m is [ns, heap, out, innerExt]: the Namespaces, the
\* Heap, the lines written to the PrintWriter, and an observation flag set
\* when a function frame exits with FrameExit::ExternalCall.  Every operator
\* returns the machine after its effects together with its result.
\* ---------------------------------------------------------------------------
\* EvalResult / RunResult
RValue(v) == [k |-> "Value", v |-> v, f |-> 0, args |-> <<>>, err |-> "None"]
RArgs(args) == [k |-> "Value", v |-> VNone, f |-> 0, args |-> args, err |-> "None"]
RReturn(v) == [k |-> "Return", v |-> v, f |-> 0, args |-> <<>>, err |-> "None"]
RExternalCall(f_id, args) ==
    [k |-> "ExternalCall", v |-> VNone, f |-> f_id, args |-> args, err |-> "None"]
RErr(e) == [k |-> "Err", v |-> VNone, f |-> 0, args |-> <<>>, err |-> e]
\* Option<FrameExit>::None
RNone == [k |-> "None", v |-> VNone, f |-> 0, args |-> <<>>, err |-> "None"]

\* NoLimitTracker as the evaluator's machine carries it: no limit, garbage
\* collection every DEFAULT_GC_INTERVAL allocations
NoLimitTracker ==
    LimitedTracker_new(ResourceLimits(NoneOpt, NoneOpt, Some(DEFAULT_GC_INTERVAL), NoneOpt))

\* SnapshotTracker / NoSnapshotTracker
SnapshotTracker_new(stack) == [kind |-> "Snapshot", stack |-> stack, clause_state |-> NoneOpt]
NoSnapshotTracker == [kind |-> "NoSnapshot", stack |-> <<>>, clause_state |-> NoneOpt]
CodePosition_default == [index |-> 0, clause_state |-> NoneOpt]

\* next that hands back the position recorded first
Tracker_next_oldest(p) ==
    IF p.kind = "Snapshot" /\ Len(p.stack) > 0
    THEN [p |-> [p EXCEPT !.stack = Tail(@)], position |-> p.stack[1]]
    ELSE [p |-> p, position |-> CodePosition_default]

\* next: pop the outermost position, or the default position
Tracker_next(p) ==
    IF p.kind = "Snapshot" /\ Len(p.stack) > 0
    THEN [p |-> [p EXCEPT !.stack = SubSeq(@, 1, Len(@) - 1)], position |-> p.stack[Len(p.stack)]]
    ELSE [p |-> p, position |-> CodePosition_default]

\* record: push the position to resume from, taking the clause state
Tracker_record(p, index) ==
    IF p.kind = "Snapshot"
    THEN [p EXCEPT !.stack = Append(@, [index |-> index, clause_state |-> p.clause_state]),
                   !.clause_state = NoneOpt]
    ELSE p

\* set_clause_state: kept for the next record
Tracker_set_clause_state(p, clause_state) ==
    IF p.kind = "Snapshot" THEN [p EXCEPT !.clause_state = Some(clause_state)] ELSE p

\* clear_return_values of a tracker that never asks for the buffer to be cleared
clear_return_values_never(p) == FALSE

clear_return_values(p) == p.kind = "Snapshot"

\* get_var: the slot's value, NameError if Undefined or absent
get_var(ns, local_idx, ident) ==
    LET ns_idx == IF ident.scope = "Local" THEN local_idx ELSE GLOBAL_NS_IDX
        namespace == ns.stack[ns_idx + 1]
    IN  IF ident.slot < Len(namespace) /\ namespace[ident.slot + 1].t # "Undefined"
        THEN [ok |-> TRUE, value |-> namespace[ident.slot + 1]]
        ELSE [ok |-> FALSE, value |-> VUndefined]

py_str(v) == IF v.t = "Int" THEN v.v ELSE 0 - 1

\* Builtins::call
Builtin_call(m, b, args) ==
    LET dropped == [m EXCEPT !.heap = drop_all_with_heap(@, args)] IN
    IF b = "Print"
    THEN [m |-> [dropped EXCEPT !.out = Append(@, [i \in 1..Len(args) |-> py_str(args[i])])],
          r |-> RValue(VNone)]
    ELSE \* Len
         IF Len(args) # 1 THEN [m |-> m, r |-> RErr("TypeError")]
         ELSE IF args[1].t = "Ref" /\ m.heap.objects[args[1].v + 1].data.kind = "List"
         THEN [m |-> dropped,
               r |-> RValue(VInt(Len(m.heap.objects[args[1].v + 1].data.items)))]
         ELSE [m |-> dropped, r |-> RErr("TypeError")]

map_result(exit) ==
    CASE exit.k = "Err" -> exit
      [] exit.k = "Return" -> RValue(exit.v)
      [] exit.k = "ExternalCall" -> RErr("NotImplementedError")
      [] OTHER -> RValue(VNone)

RemoveAt(seq, i) == SubSeq(seq, 1, i - 1) \o SubSeq(seq, i + 1, Len(seq))

RECURSIVE Flatten(_)
Flatten(seqs) == IF Len(seqs) = 0 THEN <<>> ELSE seqs[1] \o Flatten(Tail(seqs))

\* ---------------------------------------------------------------------------
\* Dict: IndexMap<u64, Vec<(key, value)>>, a sequence of [hash, bucket] in the
\* order the hashes were first inserted; a bucket is a sequence of [k, v].
\* ---------------------------------------------------------------------------
\* Value::py_eq on keys: immediates by value, a Ref to itself
Value_py_eq(a, b) == a = b

Dict_new == <<>>

\* IndexMap::get: position of the bucket of a hash, 0 if there is none
BucketPos(map, hash) ==
    IF \E b \in 1..Len(map) : map[b].hash = hash
    THEN CHOOSE b \in 1..Len(map) : map[b].hash = hash
    ELSE 0

\* first pair of a bucket whose key equals key, 0 if there is none
KeyPos(bucket, key) ==
    IF \E i \in 1..Len(bucket) : Value_py_eq(bucket[i].k, key)
    THEN CHOOSE i \in 1..Len(bucket) :
            /\ Value_py_eq(bucket[i].k, key)
            /\ \A j \in 1..(i - 1) : ~Value_py_eq(bucket[j].k, key)
    ELSE 0

\* Vec::swap_remove: the last element takes the place of the removed one
swap_remove(seq, i) ==
    IF i = Len(seq) THEN SubSeq(seq, 1, Len(seq) - 1)
    ELSE SubSeq([seq EXCEPT ![i] = seq[Len(seq)]], 1, Len(seq) - 1)

\* Dict::get: RValue(v), RNone when absent, TypeError for an unhashable key
Dict_get(map, key, heap) ==
    LET h == py_hash_u64(heap, key) IN
    IF ~h.some THEN RErr("TypeError")
    ELSE LET b == BucketPos(map, h.v) IN
         IF b = 0 THEN RNone
         ELSE LET i == KeyPos(map[b].bucket, key) IN
              IF i = 0 THEN RNone ELSE RValue(map[b].bucket[i].v)

\* Dict::set that takes a bucket's first pair for the key whenever the hash
\* has a bucket
Dict_set_by_hash(map, key, value, heap) ==
    LET h == py_hash_u64(heap, key) IN
    IF ~h.some THEN [map |-> map, heap |-> heap, r |-> RErr("TypeError")]
    ELSE LET b == BucketPos(map, h.v) IN
         IF b # 0
         THEN [map |-> [map EXCEPT ![b].bucket[1] = [k |-> key, v |-> value]],
               heap |-> Value_drop_with_heap(heap, map[b].bucket[1].k),
               r |-> RValue(map[b].bucket[1].v)]
         ELSE [map |-> Append(map, [hash |-> h.v, bucket |-> <<[k |-> key, v |-> value]>>]),
               heap |-> heap, r |-> RNone]

\* Dict::set: RValue(old) when the key was present, RNone when it was added
Dict_set(map, key, value, heap) ==
    LET h == py_hash_u64(heap, key) IN
    IF ~h.some THEN [map |-> map, heap |-> heap, r |-> RErr("TypeError")]
    ELSE LET b0 == BucketPos(map, h.v)
             m1 == IF b0 = 0 THEN Append(map, [hash |-> h.v, bucket |-> <<>>]) ELSE map
             b == IF b0 = 0 THEN Len(m1) ELSE b0
             i == KeyPos(m1[b].bucket, key)
         IN  IF i # 0
             THEN [map |-> [m1 EXCEPT ![b].bucket[i] = [k |-> key, v |-> value]],
                   heap |-> Value_drop_with_heap(heap, m1[b].bucket[i].k),
                   r |-> RValue(m1[b].bucket[i].v)]
             ELSE [map |-> [m1 EXCEPT ![b].bucket = Append(@, [k |-> key, v |-> value])],
                   heap |-> heap, r |-> RNone]

\* Dict::set_transfer_ownership: an unhashable key drops key and value
set_transfer_ownership(map, key, value, heap) ==
    LET h == py_hash_u64(heap, key) IN
    IF ~h.some
    THEN [map |-> map,
          heap |-> Value_drop_with_heap(Value_drop_with_heap(heap, key), value),
          r |-> RErr("TypeError")]
    ELSE LET b0 == BucketPos(map, h.v)
             m1 == IF b0 = 0 THEN Append(map, [hash |-> h.v, bucket |-> <<>>]) ELSE map
             b == IF b0 = 0 THEN Len(m1) ELSE b0
             i == KeyPos(m1[b].bucket, key)
         IN  IF i # 0
             THEN [map |-> [m1 EXCEPT ![b].bucket[i] = [k |-> key, v |-> value]],
                   heap |-> heap, r |-> RValue(m1[b].bucket[i].v)]
             ELSE [map |-> [m1 EXCEPT ![b].bucket = Append(@, [k |-> key, v |-> value])],
                   heap |-> heap, r |-> RNone]

\* Dict::pop: RValue(v) and the map without the pair, RNone when absent
Dict_pop(map, key, heap) ==
    LET h == py_hash_u64(heap, key) IN
    IF ~h.some THEN [map |-> map, r |-> RErr("TypeError"), k |-> VNone]
    ELSE LET b == BucketPos(map, h.v) IN
         IF b = 0 THEN [map |-> map, r |-> RNone, k |-> VNone]
         ELSE LET i == KeyPos(map[b].bucket, key) IN
              IF i = 0 THEN [map |-> map, r |-> RNone, k |-> VNone]
              ELSE LET bucket == swap_remove(map[b].bucket, i) IN
                   [map |-> IF bucket = <<>> THEN RemoveAt(map, b)
                            ELSE [map EXCEPT ![b].bucket = bucket],
                    r |-> RValue(map[b].bucket[i].v), k |-> map[b].bucket[i].k]

\* Dict::items without the clones: the pairs bucket after bucket
RECURSIVE Dict_pairs(_)
Dict_pairs(map) ==
    IF Len(map) = 0 THEN <<>> ELSE Head(map).bucket \o Dict_pairs(Tail(map))

Dict_keys(map) == [i \in 1..Len(Dict_pairs(map)) |-> Dict_pairs(map)[i].k]
Dict_values(map) == [i \in 1..Len(Dict_pairs(map)) |-> Dict_pairs(map)[i].v]
Dict_items(map) ==
    [i \in 1..Len(Dict_pairs(map)) |-> <<Dict_pairs(map)[i].k, Dict_pairs(map)[i].v>>]
Dict_len(map) == Len(Dict_pairs(map))

\* Dict::py_repr: key and value reprs in enumeration order
Dict_py_repr(map) == Dict_items(map)

\* Dict::drop_all_entries
drop_all_entries(map, heap) ==
    drop_all_with_heap(drop_all_with_heap(heap, Dict_keys(map)), Dict_values(map))

\* Dict::from_pairs: the first unhashable key drops the remaining pairs and
\* the entries taken so far
RECURSIVE from_pairs(_, _, _)
from_pairs(pairs, map, heap) ==
    IF Len(pairs) = 0 THEN [map |-> map, heap |-> heap, r |-> RNone]
    ELSE LET st == set_transfer_ownership(map, pairs[1][1], pairs[1][2], heap) IN
         IF st.r.k = "Err"
         THEN [map |-> Dict_new,
               heap |-> drop_all_entries(st.map,
                            drop_all_with_heap(
                                drop_all_with_heap(st.heap,
                                    [i \in 1..(Len(pairs) - 1) |-> pairs[i + 1][1]]),
                                [i \in 1..(Len(pairs) - 1) |-> pairs[i + 1][2]])),
               r |-> st.r]
         ELSE from_pairs(Tail(pairs), st.map, st.heap)

\* Dict::py_getitem
Dict_py_getitem(map, key, heap) ==
    LET g == Dict_get(map, key, heap) IN
    CASE g.k = "Err" -> [heap |-> heap, r |-> g]
      [] g.k = "Value" -> [heap |-> Value_clone_with_heap(heap, g.v), r |-> g]
      [] OTHER -> [heap |-> heap, r |-> RErr("KeyError")]

\* Dict::py_setitem
Dict_py_setitem(map, key, value, heap) ==
    LET st == Dict_set(map, key, value, heap) IN
    CASE st.r.k = "Err" -> st
      [] st.r.k = "Value" ->
            [map |-> st.map, heap |-> Value_drop_with_heap(st.heap, st.r.v), r |-> RNone]
      [] OTHER -> st

NoDefault == [some |-> FALSE, v |-> VNone]

drop_default(heap, dflt) == IF dflt.some THEN Value_drop_with_heap(heap, dflt.v) ELSE heap

\* Dict::py_call_attr, Attr::Get
Dict_attr_get(map, heap, key, dflt) ==
    LET g == Dict_get(map, key, heap)
        dropped == Value_drop_with_heap(heap, key)
    IN  CASE g.k = "Err" -> [map |-> map, heap |-> drop_default(dropped, dflt), r |-> g]
          [] g.k = "Value" ->
                [map |-> map,
                 heap |-> drop_default(Value_clone_with_heap(dropped, g.v), dflt),
                 r |-> g]
          [] OTHER ->
                [map |-> map, heap |-> dropped,
                 r |-> IF dflt.some THEN RValue(dflt.v) ELSE RValue(VNone)]

\* Dict::py_call_attr, Attr::Pop
Dict_attr_pop(map, heap, key, dflt) ==
    IF ~py_hash_u64(heap, key).some
    THEN [map |-> map, heap |-> Value_drop_with_heap(heap, key),
          r |-> IF dflt.some THEN RValue(dflt.v) ELSE RErr("TypeError")]
    ELSE LET p == Dict_pop(map, key, heap) IN
         CASE p.r.k = "Err" ->
                [map |-> map,
                 heap |-> drop_default(Value_drop_with_heap(heap, key), dflt), r |-> p.r]
           [] p.r.k = "Value" ->
                [map |-> p.map,
                 heap |-> drop_default(
                            Value_drop_with_heap(Value_drop_with_heap(heap, p.k), key), dflt),
                 r |-> p.r]
           [] OTHER ->
                [map |-> map, heap |-> Value_drop_with_heap(heap, key),
                 r |-> IF dflt.some THEN RValue(dflt.v) ELSE RErr("KeyError")]

\* Bind(value, Body) is Body(value) with value computed once
Bind(value, Body(_)) == CHOOSE y \in {Body(x) : x \in {value}} : TRUE

RECURSIVE evaluate_use(_, _, _)
RECURSIVE evaluate_args(_, _, _, _)
RECURSIVE evaluate_pairs(_, _, _, _)
RECURSIVE evaluate_discard(_, _, _)
RECURSIVE discard_all(_, _, _)
RECURSIVE Callable_call(_, _, _, _)
RECURSIVE Function_call(_, _, _)
RECURSIVE execute_node(_, _, _)
RECURSIVE execute_loop(_, _, _, _, _)
RECURSIVE RunFrame_execute(_, _, _, _)

\* evaluate_args: left to right; the first argument that does not produce a
\* value ends the evaluation
evaluate_args(m, local_idx, args_expr, acc) ==
    IF Len(args_expr) = 0 THEN [m |-> m, r |-> RArgs(acc)]
    ELSE Bind(evaluate_use(m, local_idx, args_expr[1]), LAMBDA a :
            IF a.r.k # "Value" THEN a
            ELSE evaluate_args(a.m, local_idx, Tail(args_expr), Append(acc, a.r.v)))

\* py_add / py_sub on the operand values
py_op(op, lhs, rhs) ==
    IF lhs.t = "Int" /\ rhs.t = "Int"
    THEN RValue(VInt(IF op = "Add" THEN lhs.v + rhs.v ELSE lhs.v - rhs.v))
    ELSE RErr("TypeError")

\* The payload kind of a value: its variant, or the kind of the heap payload
KindOf(heap, v) == IF v.t = "Ref" THEN heap.objects[v.v + 1].data.kind ELSE v.t

\* py_add / py_sub: integers; `+` on two strs or two lists allocates the
\* concatenation (the items of the new list are cloned); anything else has no
\* result (None), which eval_op reports as TypeError
py_binary(heap, op, lhs, rhs) ==
    IF lhs.t = "Ref" /\ rhs.t = "Ref" /\ op = "Add"
       /\ KindOf(heap, lhs) = KindOf(heap, rhs) /\ KindOf(heap, lhs) \in {"Str", "List"}
    THEN LET a == heap.objects[lhs.v + 1].data
             b == heap.objects[rhs.v + 1].data
             data == IF a.kind = "Str" THEN HeapStr(a.s + b.s)
                     ELSE HeapList(a.items \o b.items)
             al == Heap_allocate(clone_all_with_heap(heap, data.items), data)
         IN  [heap |-> al.heap, r |-> RValue(VRef(al.id))]
    ELSE [heap |-> heap, r |-> py_op(op, lhs, rhs)]

\* eval_op: both operands, then the operation, then the operands are dropped
eval_op(m, local_idx, expr) ==
    Bind(evaluate_use(m, local_idx, expr.left), LAMBDA lhs :
        IF lhs.r.k # "Value" THEN lhs
        ELSE Bind(evaluate_use(lhs.m, local_idx, expr.right), LAMBDA rhs :
                IF rhs.r.k # "Value" THEN rhs
                ELSE Bind(py_binary(rhs.m.heap, expr.op, lhs.r.v, rhs.r.v), LAMBDA res :
                        [m |-> [rhs.m EXCEPT !.heap =
                                Value_drop_with_heap(Value_drop_with_heap(res.heap, lhs.r.v),
                                                     rhs.r.v),
                                             !.tracker =
                                IF Len(res.heap.objects) > Len(rhs.m.heap.objects)
                                THEN on_allocate(@, 0).t ELSE @],
                         r |-> res.r])))

\* py_bool: None, False, 0, the empty str and the empty list are falsy
py_bool(heap, v) ==
    CASE v.t = "None" -> FALSE
      [] v.t = "Bool" -> v.v = 1
      [] v.t = "Int" -> v.v # 0
      [] v.t = "Ref" ->
            LET data == heap.objects[v.v + 1].data IN
            IF data.kind = "Str" THEN data.s # 0 ELSE Len(data.items) > 0
      [] OTHER -> TRUE

\* eval_and that coerces the chosen operand to a bool
eval_and_bool(m, local_idx, expr) ==
    Bind(evaluate_use(m, local_idx, expr.left), LAMBDA lhs :
        IF lhs.r.k # "Value" THEN lhs
        ELSE IF py_bool(lhs.m.heap, lhs.r.v)
        THEN Bind(evaluate_use([lhs.m EXCEPT !.heap = Value_drop_with_heap(@, lhs.r.v)],
                               local_idx, expr.right), LAMBDA rhs :
                IF rhs.r.k # "Value" THEN rhs
                ELSE [m |-> [rhs.m EXCEPT !.heap = Value_drop_with_heap(@, rhs.r.v)],
                      r |-> RValue(VBool(py_bool(rhs.m.heap, rhs.r.v)))])
        ELSE [m |-> [lhs.m EXCEPT !.heap = Value_drop_with_heap(@, lhs.r.v)],
              r |-> RValue(VBool(FALSE))])

\* eval_and: the left operand; if it is truthy it is dropped and the result is
\* the right operand, otherwise the left operand itself is the result
eval_and(m, local_idx, expr) ==
    Bind(evaluate_use(m, local_idx, expr.left), LAMBDA lhs :
        IF lhs.r.k # "Value" THEN lhs
        ELSE IF py_bool(lhs.m.heap, lhs.r.v)
        THEN evaluate_use([lhs.m EXCEPT !.heap = Value_drop_with_heap(@, lhs.r.v)],
                          local_idx, expr.right)
        ELSE lhs)

\* eval_or: the left operand; if it is truthy it is the result itself,
\* otherwise it is dropped and the result is the right operand
eval_or(m, local_idx, expr) ==
    Bind(evaluate_use(m, local_idx, expr.left), LAMBDA lhs :
        IF lhs.r.k # "Value" THEN lhs
        ELSE IF py_bool(lhs.m.heap, lhs.r.v)
        THEN lhs
        ELSE evaluate_use([lhs.m EXCEPT !.heap = Value_drop_with_heap(@, lhs.r.v)],
                          local_idx, expr.right))

\* py_getitem on a list: the item at the index, cloned; IndexError when the
\* index is out of range, TypeError for any other object or index
py_getitem(heap, obj, key) ==
    IF obj.t = "Ref" /\ heap.objects[obj.v + 1].data.kind = "List" /\ key.t = "Int"
    THEN LET items == heap.objects[obj.v + 1].data.items IN
         IF key.v >= 0 /\ key.v < Len(items)
         THEN [heap |-> Value_clone_with_heap(heap, items[key.v + 1]),
               r |-> RValue(items[key.v + 1])]
         ELSE [heap |-> heap, r |-> RErr("IndexError")]
    ELSE [heap |-> heap, r |-> RErr("TypeError")]

\* List::append through Heap::call_attr
call_attr(m, object, attr, args) ==
    IF object.t = "Ref" /\ attr = "append" /\ Len(args) = 1
       /\ m.heap.objects[object.v + 1].data.kind = "List"
    THEN [m |-> [m EXCEPT !.heap.objects[object.v + 1].data.items = Append(@, args[1])],
          r |-> RValue(VNone)]
    ELSE [m |-> m, r |-> RErr("AttributeError")]

\* attr_call: the arguments first, then the method on the object in the slot
attr_call(m, local_idx, expr) ==
    Bind(evaluate_args(m, local_idx, expr.args, <<>>), LAMBDA a :
        IF a.r.k # "Value" THEN a
        ELSE Bind(get_var(a.m.ns, local_idx, expr.object), LAMBDA object :
                IF ~object.ok THEN [m |-> a.m, r |-> RErr("NameError")]
                ELSE call_attr(a.m, object.value, expr.attr, a.r.args)))

evaluate_use(m, local_idx, expr) ==
    CASE expr.k = "Constant" -> [m |-> m, r |-> RValue(VInt(expr.n))]
      [] expr.k = "Name" ->
            Bind(get_var(m.ns, local_idx, expr.ident), LAMBDA var :
                IF var.ok
                THEN [m |-> [m EXCEPT !.heap = Value_clone_with_heap(@, var.value)],
                      r |-> RValue(var.value)]
                ELSE [m |-> m, r |-> RErr("NameError")])
      [] expr.k = "Call" ->
            Bind(evaluate_args(m, local_idx, expr.args, <<>>), LAMBDA a :
                IF a.r.k # "Value" THEN a
                ELSE Callable_call(a.m, local_idx, expr.callable, a.r.args))
      [] expr.k = "AttrCall" -> attr_call(m, local_idx, expr)
      [] expr.k = "Op" ->
            CASE expr.op = "And" -> eval_and(m, local_idx, expr)
              [] expr.op = "Or" -> eval_or(m, local_idx, expr)
              [] OTHER -> eval_op(m, local_idx, expr)
      [] expr.k = "Subscript" ->
            Bind(evaluate_use(m, local_idx, expr.object), LAMBDA obj :
                IF obj.r.k # "Value" THEN obj
                ELSE Bind(evaluate_use(obj.m, local_idx, expr.index), LAMBDA key :
                        IF key.r.k # "Value" THEN key
                        ELSE Bind(py_getitem(key.m.heap, obj.r.v, key.r.v), LAMBDA res :
                                [m |-> [key.m EXCEPT !.heap =
                                          Value_drop_with_heap(
                                              Value_drop_with_heap(res.heap, obj.r.v), key.r.v)],
                                 r |-> res.r])))
      [] expr.k = "Dict" ->
            Bind(evaluate_pairs(m, local_idx, expr.pairs, <<>>), LAMBDA ps :
                IF ps.r.k # "Value" THEN ps
                ELSE Bind(from_pairs(ps.r.args, Dict_new, ps.m.heap), LAMBDA dict :
                        IF dict.r.k = "Err"
                        THEN [m |-> [ps.m EXCEPT !.heap = dict.heap], r |-> dict.r]
                        ELSE Bind(Heap_allocate(dict.heap, HeapDict(Flatten(Dict_items(dict.map)))),
                                  LAMBDA al :
                                [m |-> [ps.m EXCEPT !.heap = al.heap,
                                                    !.tracker = on_allocate(@, 0).t],
                                 r |-> RValue(VRef(al.id))])))
      [] OTHER -> \* List
            Bind(Heap_allocate(m.heap, HeapList(<<>>)), LAMBDA al :
                [m |-> [m EXCEPT !.heap = al.heap, !.tracker = on_allocate(@, 0).t],
                 r |-> RValue(VRef(al.id))])

\* the key and value expressions of a dict literal, pair after pair
evaluate_pairs(m, local_idx, pairs, acc) ==
    IF Len(pairs) = 0 THEN [m |-> m, r |-> RArgs(acc)]
    ELSE Bind(evaluate_use(m, local_idx, pairs[1][1]), LAMBDA key :
            IF key.r.k # "Value" THEN key
            ELSE Bind(evaluate_use(key.m, local_idx, pairs[1][2]), LAMBDA value :
                    IF value.r.k # "Value" THEN value
                    ELSE evaluate_pairs(value.m, local_idx, Tail(pairs),
                                        Append(acc, <<key.r.v, value.r.v>>))))

\* evaluate_discard of a sequence of expressions, in order
discard_all(m, local_idx, exprs) ==
    IF Len(exprs) = 0 THEN [m |-> m, r |-> RNone]
    ELSE Bind(evaluate_discard(m, local_idx, exprs[1]), LAMBDA d :
            IF d.r.k # "None" THEN d ELSE discard_all(d.m, local_idx, Tail(exprs)))

\* evaluate_discard: RNone stands for Ok(())
evaluate_discard(m, local_idx, expr) ==
    CASE expr.k = "Constant" -> [m |-> m, r |-> RNone]
      [] expr.k = "Name" ->
            IF get_var(m.ns, local_idx, expr.ident).ok
            THEN [m |-> m, r |-> RNone]
            ELSE [m |-> m, r |-> RErr("NameError")]
      [] expr.k \in {"Call", "AttrCall", "Op"} ->
            Bind(evaluate_use(m, local_idx, expr), LAMBDA res :
                IF res.r.k # "Value" THEN res
                ELSE [m |-> [res.m EXCEPT !.heap = Value_drop_with_heap(@, res.r.v)],
                      r |-> RNone])
      [] expr.k = "Subscript" -> discard_all(m, local_idx, <<expr.object, expr.index>>)
      [] expr.k = "Dict" ->
            discard_all(m, local_idx,
                        [i \in 1..(2 * Len(expr.pairs)) |-> expr.pairs[(i + 1) \div 2][2 - (i % 2)]])
      [] OTHER -> [m |-> m, r |-> RNone]  \* List: its elements, one after the other

\* Callable::call on a name bound to an external function: a buffered return
\* value if there is one (the re-evaluated arguments are dropped), otherwise
\* the external call itself
ExtFunction_call(m, f_id, args) ==
    Bind(take_ext_return_value(m.ns, m.heap), LAMBDA taken :
        IF taken.some
        THEN [m |-> [m EXCEPT !.ns = taken.ns,
                              !.heap = drop_all_with_heap(taken.heap, args)],
              r |-> RValue(taken.value)]
        ELSE [m |-> m, r |-> RExternalCall(f_id, args)])

\* Callable::call
Callable_call(m, local_idx, callable, args) ==
    IF callable.k = "Builtin" THEN Builtin_call(m, callable.b, args)
    ELSE Bind(get_var(m.ns, local_idx, callable.ident), LAMBDA var :
            IF ~var.ok
            THEN [m |-> [m EXCEPT !.heap = drop_all_with_heap(@, args)], r |-> RErr("NameError")]
            ELSE CASE var.value.t = "Builtin" ->
                        Builtin_call(m, IF var.value.v = 0 THEN "Print" ELSE "Len", args)
                   [] var.value.t = "Function" -> Function_call(m, var.value.v, args)
                   [] var.value.t = "ExtFunction" -> ExtFunction_call(m, var.value.v, args)
                   [] OTHER ->
                        [m |-> [m EXCEPT !.heap = drop_all_with_heap(@, args)],
                         r |-> RErr("TypeError")])

\* Function::call after new_namespace: bind the arguments, fill the namespace,
\* execute the body in a frame without position tracking, drop the namespace
Function_body(m, function, created, args) ==
    IF Len(args) # function.param_count
    THEN [m |-> [m EXCEPT !.ns = created.ns], r |-> RErr("TypeError")]
    ELSE Bind([m EXCEPT !.ns = [created.ns EXCEPT !.stack[created.id + 1] =
                    [i \in 1..function.namespace_size |->
                        IF i <= Len(args) THEN args[i] ELSE VUndefined]]],
              LAMBDA entered :
         Bind(RunFrame_execute(entered, created.id, NoSnapshotTracker, function.body),
              LAMBDA result :
         Bind(Namespaces_drop_with_heap(result.m.ns, result.m.heap, NoLimitTracker, created.id),
              LAMBDA dropped :
            [m |-> [result.m EXCEPT !.ns = dropped.ns, !.heap = dropped.heap,
                                    !.innerExt = @ \/ result.exit.k = "ExternalCall"],
             r |-> map_result(result.exit)])))

\* Function::call
Function_call(m, f_id, args) ==
    Bind(new_namespace(m.ns, NoLimitTracker, Functions[f_id + 1].namespace_size),
         LAMBDA created :
            IF created.res.kind # "Ok" THEN [m |-> m, r |-> RErr(created.res.kind)]
            ELSE Function_body(m, Functions[f_id + 1], created, args))

\* Assignment to a namespace slot: the old value is dropped
assign(m, local_idx, target, value) ==
    LET ns_idx == IF target.scope = "Local" THEN local_idx ELSE GLOBAL_NS_IDX IN
    [m EXCEPT !.heap = Value_drop_with_heap(@, m.ns.stack[ns_idx + 1][target.slot + 1]),
              !.ns.stack[ns_idx + 1][target.slot + 1] = value]

\* RunFrame::execute_node: one statement
execute_node(m, local_idx, node) ==
    CASE node.k = "Expr" ->
            Bind(evaluate_use(m, local_idx, node.e), LAMBDA e :
                IF e.r.k # "Value" THEN e
                ELSE [m |-> [e.m EXCEPT !.heap = Value_drop_with_heap(@, e.r.v)],
                      r |-> RValue(VNone)])
      [] node.k = "Assign" ->
            Bind(evaluate_use(m, local_idx, node.e), LAMBDA e :
                IF e.r.k # "Value" THEN e
                ELSE [m |-> assign(e.m, local_idx, node.target, e.r.v), r |-> RValue(VNone)])
      [] node.k = "Return" ->
            Bind(evaluate_use(m, local_idx, node.e), LAMBDA e :
                IF e.r.k # "Value" THEN e ELSE [m |-> e.m, r |-> RReturn(e.r.v)])
      [] OTHER -> \* FunctionDef
            [m |-> assign(m, local_idx, node.target, VFunction(node.f_id)), r |-> RValue(VNone)]

\* The statement boundary: garbage collection when the tracker asks for it,
\* with the namespaces' heap ids as the roots
gc_at_boundary(m) ==
    IF should_gc(m.tracker)
    THEN [m EXCEPT !.heap = collect_garbage(@, iter_heap_ids(m.ns)),
                   !.tracker = on_gc_complete(@)]
    ELSE m

\* RunFrame::execute: the statements from index on.  A statement that ends in
\* an external call records its own index; a completed statement of a
\* position-tracking frame clears the buffered return values.
execute_loop(m, local_idx, p, nodes, index) ==
    IF index >= Len(nodes) THEN [m |-> m, p |-> p, exit |-> RNone]
    ELSE Bind(execute_node(gc_at_boundary(m), local_idx, nodes[index + 1]), LAMBDA n :
         CASE n.r.k = "ExternalCall" -> [m |-> n.m, p |-> Tracker_record(p, index), exit |-> n.r]
           [] n.r.k = "Err" -> [m |-> n.m, p |-> p, exit |-> n.r]
           [] n.r.k = "Return" -> [m |-> n.m, p |-> p, exit |-> n.r]
           [] OTHER ->
                Bind(IF clear_return_values(p)
                     THEN [n.m EXCEPT !.ns = clear_ext_return_values(n.m.ns, n.m.heap).ns]
                     ELSE n.m,
                     LAMBDA cleared : execute_loop(cleared, local_idx, p, nodes, index + 1)))

RunFrame_execute(m, local_idx, p, nodes) ==
    Bind(Tracker_next(p), LAMBDA position :
        execute_loop(m, local_idx, position.p, nodes, position.position.index))

\* ---------------------------------------------------------------------------
\* dump / load: the serde encoding of a suspended run as a sequence of
\* numbers.  A Vec is its length then its elements, an enum its discriminant
\* then its fields, an Option 0 or 1 then the value, a signed integer its
\* zigzag code.
\* ---------------------------------------------------------------------------
ZigZag(n) == IF n >= 0 THEN 2 * n ELSE (0 - 2) * n - 1
UnZigZag(z) == IF z % 2 = 0 THEN z \div 2 ELSE 0 - ((z + 1) \div 2)


EncVec(items, Enc(_)) == <<Len(items)>> \o Flatten([i \in 1..Len(items) |-> Enc(items[i])])

EncValue(v) ==
    CASE v.t = "Undefined" -> <<0>>
      [] v.t = "None" -> <<1>>
      [] v.t = "Int" -> <<2, ZigZag(v.v)>>
      [] v.t = "ExtFunction" -> <<3, v.v>>
      [] v.t = "Function" -> <<4, v.v>>
      [] v.t = "Builtin" -> <<5, v.v>>
      [] OTHER -> <<6, v.v>>

DecValue(b) ==
    CASE b[1] = 0 -> [v |-> VUndefined, rest |-> Tail(b)]
      [] b[1] = 1 -> [v |-> VNone, rest |-> Tail(b)]
      [] b[1] = 2 -> [v |-> VInt(UnZigZag(b[2])), rest |-> Tail(Tail(b))]
      [] b[1] = 3 -> [v |-> VExtFunction(b[2]), rest |-> Tail(Tail(b))]
      [] b[1] = 4 -> [v |-> VFunction(b[2]), rest |-> Tail(Tail(b))]
      [] b[1] = 5 -> [v |-> VBuiltin(b[2]), rest |-> Tail(Tail(b))]
      [] OTHER -> [v |-> VRef(b[2]), rest |-> Tail(Tail(b))]

EncInt(n) == <<n>>
DecInt(b) == [v |-> b[1], rest |-> Tail(b)]

EncValues(values) == EncVec(values, EncValue)

RECURSIVE DecValuesN(_, _, _)
DecValuesN(b, n, acc) ==
    IF n = 0 THEN [v |-> acc, rest |-> b]
    ELSE LET d == DecValue(b) IN DecValuesN(d.rest, n - 1, Append(acc, d.v))
DecValues(b) == DecValuesN(Tail(b), b[1], <<>>)

RECURSIVE DecIntsN(_, _, _)
DecIntsN(b, n, acc) ==
    IF n = 0 THEN [v |-> acc, rest |-> b]
    ELSE DecIntsN(Tail(b), n - 1, Append(acc, b[1]))
DecInts(b) == DecIntsN(Tail(b), b[1], <<>>)

RECURSIVE DecStackN(_, _, _)
DecStackN(b, n, acc) ==
    IF n = 0 THEN [v |-> acc, rest |-> b]
    ELSE LET d == DecValues(b) IN DecStackN(d.rest, n - 1, Append(acc, d.v))

\* Namespaces: stack, reuse_ids, ext_return_values, next_ext_return_value
EncNamespaces(ns) ==
    EncVec(ns.stack, EncValues) \o EncVec(ns.reuse_ids, EncInt)
    \o EncValues(ns.ext_return_values) \o <<ns.next_ext_return_value>>

DecNamespaces(b) ==
    LET stack == DecStackN(Tail(b), b[1], <<>>)
        reuse_ids == DecInts(stack.rest)
        ext == DecValues(reuse_ids.rest)
    IN  [v |-> [stack |-> stack.v, reuse_ids |-> reuse_ids.v,
                ext_return_values |-> ext.v, next_ext_return_value |-> ext.rest[1]],
         rest |-> Tail(ext.rest)]

EncOption(opt) == IF opt.some THEN <<1, opt.v>> ELSE <<0>>
DecOption(b) ==
    IF b[1] = 1 THEN [v |-> Some(b[2]), rest |-> Tail(Tail(b))]
    ELSE [v |-> NoneOpt, rest |-> Tail(b)]

\* Option<HeapObject>: refcount, data, cached_hash
EncObject(obj) ==
    IF ~obj.live THEN <<0>>
    ELSE <<1, obj.refcount>>
         \o (IF obj.data.kind = "Str" THEN <<0, obj.data.s>> ELSE <<1>> \o EncValues(obj.data.items))
         \o EncOption(obj.cached_hash)

DecObject(b) ==
    IF b[1] = 0 THEN [v |-> FreedSlot, rest |-> Tail(b)]
    ELSE LET data == IF b[3] = 0
                     THEN [v |-> HeapStr(b[4]), rest |-> SubSeq(b, 5, Len(b))]
                     ELSE LET items == DecValues(SubSeq(b, 4, Len(b))) IN
                          [v |-> HeapList(items.v), rest |-> items.rest]
             hash == DecOption(data.rest)
         IN  [v |-> [live |-> TRUE, refcount |-> b[2], data |-> data.v, cached_hash |-> hash.v],
              rest |-> hash.rest]

RECURSIVE DecObjectsN(_, _, _)
DecObjectsN(b, n, acc) ==
    IF n = 0 THEN [v |-> acc, rest |-> b]
    ELSE LET d == DecObject(b) IN DecObjectsN(d.rest, n - 1, Append(acc, d.v))

EncHeap(heap) == EncVec(heap.objects, EncObject)
DecHeap(b) ==
    LET objects == DecObjectsN(Tail(b), b[1], <<>>) IN
    [v |-> [objects |-> objects.v, panic |-> FALSE], rest |-> objects.rest]

\* SnapshotTracker: stack of CodePosition (index, clause_state), clause_state
EncPosition(position) == <<position.index>> \o EncOption(position.clause_state)

RECURSIVE DecPositionsN(_, _, _)
DecPositionsN(b, n, acc) ==
    IF n = 0 THEN [v |-> acc, rest |-> b]
    ELSE LET clause == DecOption(Tail(b)) IN
         DecPositionsN(clause.rest, n - 1,
                       Append(acc, [index |-> b[1], clause_state |-> clause.v]))

EncTracker(p) == EncVec(p.stack, EncPosition) \o EncOption(p.clause_state)
DecTracker(b) ==
    LET stack == DecPositionsN(Tail(b), b[1], <<>>)
        clause == DecOption(stack.rest)
    IN  [v |-> [kind |-> "Snapshot", stack |-> stack.v, clause_state |-> clause.v],
         rest |-> clause.rest]

\* ---------------------------------------------------------------------------
\* The run: start, resume, dump, load
\* ---------------------------------------------------------------------------
\* The values a host returns from an external function
HostVals == {10, 20}

\* RunProgress
NotStarted == [kind |-> "NotStarted", f |-> 0, args |-> <<>>, value |-> VNone, err |-> "None"]
ToProgress(exit) ==
    CASE exit.k = "ExternalCall" ->
            [kind |-> "FunctionCall", f |-> exit.f, args |-> exit.args, value |-> VNone, err |-> "None"]
      [] exit.k = "Err" ->
            [kind |-> "Error", f |-> 0, args |-> <<>>, value |-> VNone, err |-> exit.err]
      [] OTHER ->
            [kind |-> "Complete", f |-> 0, args |-> <<>>, value |-> exit.v, err |-> "None"]

\* The global namespace at the start of a run: the declared external functions
\* in the first slots, every other slot Undefined
InitialGlobals ==
    [i \in 1..GlobalSize |-> IF i <= ExtCount THEN VExtFunction(i - 1) ELSE VUndefined]

NewRun == [ns |-> Namespaces_new(InitialGlobals), heap |-> EmptyHeap,
           p |-> SnapshotTracker_new(<<>>)]

Machine(state, written, flag) ==
    [ns |-> state.ns, heap |-> state.heap, out |-> written, innerExt |-> flag,
     tracker |-> NoLimitTracker]

\* MontyRun::start: execute the module frame from the first statement
MontyRun_start(pid) ==
    RunFrame_execute(Machine(NewRun, <<>>, FALSE), GLOBAL_NS_IDX, NewRun.p, Nodes(pid))

\* Snapshot::run: buffer the host's return value, execute the module frame
\* from the recorded position
Snapshot_run(pid, state, written, flag, return_value) ==
    LET m == Machine(state, written, flag) IN
    RunFrame_execute([m EXCEPT !.ns = push_ext_return_value(@, VInt(return_value))],
                     GLOBAL_NS_IDX, state.p, Nodes(pid))

\* dump that leaves the buffered return values out
RunProgress_dump_skip(state) ==
    EncNamespaces([state.ns EXCEPT !.ext_return_values = <<>>])
    \o EncHeap(state.heap) \o EncTracker(state.p)

RunProgress_dump(state) ==
    EncNamespaces(state.ns) \o EncHeap(state.heap) \o EncTracker(state.p)

RunProgress_load(bytes) ==
    LET ns == DecNamespaces(bytes)
        heap == DecHeap(ns.rest)
        p == DecTracker(heap.rest)
    IN  [ns |-> ns.v, heap |-> heap.v, p |-> p.v]

\* ---------------------------------------------------------------------------
\* Values of the variables a specification does not use
\* ---------------------------------------------------------------------------
NoCall == [made |-> FALSE, res |-> ResOk, depth |-> 0, id |-> 0]

NoAllocate ==
    [made |-> FALSE, size |-> 0, before |-> LimitedTracker_new(NoLimits),
     after |-> LimitedTracker_new(NoLimits)]
IdleTracker == trk = LimitedTracker_new(NoLimits) /\ trkLog = <<>> /\ trkLast = NoAllocate
IdleNs ==
    /\ cns = Namespaces_new(<<>>)
    /\ ctrk = LimitedTracker_new(NoLimits)
    /\ active = <<>>
    /\ lastCall = NoCall
IdleHeap ==
    /\ hp = EmptyHeap
    /\ hns = Namespaces_new(<<>>)
    /\ temps = <<>>
    /\ allocated = <<>>
IdleRun ==
    /\ progId = 0
    /\ run = NewRun
    /\ out = <<>>
    /\ innerExt = FALSE
    /\ progress = NotStarted
    /\ resumes = <<>>
    /\ calls = <<>>
    /\ loads = 0

IdleEval == evl = 0
IdleTake == tk = 0
IdleGc == gcs = 0
IdleDict == dct = 0
IdleAux == aux = 0
IdleMore == IdleEval /\ IdleTake /\ IdleGc /\ IdleDict /\ IdleAux

\* ---------------------------------------------------------------------------
\* SpecTracker: a LimitedTracker driven by arbitrary calls
\* ---------------------------------------------------------------------------
OptNat(max) == {NoneOpt} \cup {Some(n) : n \in 0..max}

InitTracker ==
    /\ \E ma \in OptNat(MaxAllocLimit), mm \in {NoneOpt, Some(MaxMemLimit)},
          gi \in {NoneOpt, Some(2)} :
          trk = LimitedTracker_new(ResourceLimits(ma, mm, gi, NoneOpt))
    /\ trkLog = <<>>
    /\ trkLast = NoAllocate
    /\ IdleNs /\ IdleHeap /\ IdleRun /\ IdleMore

TrackerAllocate ==
    /\ Len(trkLog) < MaxTrackerCalls
    /\ \E size \in 0..MaxSize :
          LET r == on_allocate(trk, size) IN
          /\ trk' = r.t
          /\ trkLog' = Append(trkLog, r.res)
          /\ trkLast' = [made |-> TRUE, size |-> size, before |-> trk, after |-> r.t]
    /\ UNCHANGED <<varsNs, varsHeap, varsRun, varsMore>>

TrackerFree ==
    /\ trk.current_memory > 0
    /\ \E size \in 1..MaxSize : trk' = on_free(trk, size)
    /\ UNCHANGED <<trkLog, trkLast, varsNs, varsHeap, varsRun, varsMore>>

TrackerGcComplete ==
    /\ should_gc(trk)
    /\ trk' = on_gc_complete(trk)
    /\ UNCHANGED <<trkLog, trkLast, varsNs, varsHeap, varsRun, varsMore>>

NextTracker == TrackerAllocate \/ TrackerFree \/ TrackerGcComplete

SpecTracker == InitTracker /\ [][NextTracker]_vars

\* ---------------------------------------------------------------------------
\* SpecNs: function calls entering and leaving namespaces.  NsCall is the
\* entry of Function::call up to the start of the body, NsReturn its exit.
\* ---------------------------------------------------------------------------
InitNs ==
    /\ cns = Namespaces_new(<<>>)
    /\ \E md \in 1..MaxDepthLimit, mm \in {NoneOpt, Some(3 * SizeOfValue)} :
          ctrk = LimitedTracker_new(ResourceLimits(NoneOpt, mm, NoneOpt, Some(md)))
    /\ active = <<>>
    /\ lastCall = NoCall
    /\ IdleTracker /\ IdleHeap /\ IdleRun /\ IdleMore

\* Function::call: new_namespace, then bind and resize_with fill the namespace
\* to namespace_size slots; the body then runs in it.
NsCall ==
    /\ ctrk.allocation_count < MaxNsCalls
    /\ \E namespace_size \in 1..MaxNsSize :
          LET r == new_namespace(cns, ctrk, namespace_size) IN
          /\ ctrk' = r.t
          /\ lastCall' = [made |-> TRUE, res |-> r.res, depth |-> Len(active), id |-> r.id]
          /\ IF r.res.kind = "Ok"
             THEN /\ cns' = [r.ns EXCEPT !.stack[r.id + 1] =
                                [i \in 1..namespace_size |-> VUndefined]]
                  /\ active' = Append(active, r.id)
             ELSE /\ cns' = r.ns
                  /\ active' = active
    /\ UNCHANGED <<varsTracker, varsHeap, varsRun, varsMore>>

\* Function::call: the body returned, drop_with_heap(local_idx)
NsReturn ==
    /\ Len(active) > 0
    /\ LET r == Namespaces_drop_with_heap(cns, EmptyHeap, ctrk, active[Len(active)]) IN
          /\ cns' = r.ns
          /\ ctrk' = r.t
    /\ active' = SubSeq(active, 1, Len(active) - 1)
    /\ UNCHANGED <<lastCall, varsTracker, varsHeap, varsRun, varsMore>>

NextNs == NsCall \/ NsReturn

SpecNs == InitNs /\ [][NextNs]_vars


\* ---------------------------------------------------------------------------
\* SpecHeap: the operations that create, copy, move and destroy references.
\* Namespace 0 is the global namespace (one slot); namespace 1 is the namespace
\* of a function call (one slot) while the call is executing.
\* ---------------------------------------------------------------------------

\* ids of the slots already vacated
FreedIds(heap) == {i - 1 : i \in {j \in 1..Len(heap.objects) : ~heap.objects[j].live}}

InitHeap ==
    /\ hp = EmptyHeap
    /\ hns = Namespaces_new(<<VUndefined>>)
    /\ temps = <<>>
    /\ allocated = <<>>
    /\ IdleTracker /\ IdleNs /\ IdleRun /\ IdleMore

\* evaluate_use of a str or list literal: Heap::allocate, the evaluator owns the Ref
HeapAllocate ==
    /\ Len(hp.objects) < MaxHeap
    /\ Len(temps) < MaxTemps
    /\ \E data \in {HeapStr(1), HeapList(<<>>)} :
          LET r == Heap_allocate(hp, data) IN
          /\ hp' = r.heap
          /\ temps' = Append(temps, VRef(r.id))
          /\ allocated' = Append(allocated, [id |-> r.id, freed |-> FreedIds(hp)])
    /\ UNCHANGED <<hns, varsTracker, varsNs, varsRun, varsMore>>

\* evaluate_use of a name: clone_with_heap of the namespace slot
HeapLoadVar ==
    /\ Len(temps) < MaxTemps
    /\ \E n \in 1..Len(hns.stack) : \E i \in 1..Len(hns.stack[n]) :
          LET v == hns.stack[n][i] IN
          /\ v.t = "Ref"
          /\ hp.objects[v.v + 1].refcount < MaxRefcount
          /\ hp' = Value_clone_with_heap(hp, v)
          /\ temps' = Append(temps, v)
    /\ UNCHANGED <<hns, allocated, varsTracker, varsNs, varsRun, varsMore>>

\* assignment: the value moves into the slot, the old value is dropped
HeapStoreVar ==
    /\ \E t \in 1..Len(temps) : \E n \in 1..Len(hns.stack) : \E i \in 1..Len(hns.stack[n]) :
          /\ hp' = Value_drop_with_heap(hp, hns.stack[n][i])
          /\ hns' = [hns EXCEPT !.stack[n][i] = temps[t]]
          /\ temps' = RemoveAt(temps, t)
    /\ UNCHANGED <<allocated, varsTracker, varsNs, varsRun, varsMore>>

\* evaluate_discard: the evaluator drops a value it owns
HeapDropTemp ==
    /\ \E t \in 1..Len(temps) :
          /\ hp' = Value_drop_with_heap(hp, temps[t])
          /\ temps' = RemoveAt(temps, t)
    /\ UNCHANGED <<hns, allocated, varsTracker, varsNs, varsRun, varsMore>>

\* List::append through a list held in a namespace slot: the item moves into
\* the payload
HeapListAppend ==
    /\ \E t \in 1..Len(temps) : \E n \in 1..Len(hns.stack) : \E i \in 1..Len(hns.stack[n]) :
          LET l == hns.stack[n][i] IN
          /\ l.t = "Ref"
          /\ HeapLive(hp, l.v)
          /\ hp.objects[l.v + 1].data.kind = "List"
          /\ Len(hp.objects[l.v + 1].data.items) < MaxListLen
          /\ hp' = [hp EXCEPT !.objects[l.v + 1].data.items = Append(@, temps[t])]
          /\ temps' = RemoveAt(temps, t)
    /\ UNCHANGED <<hns, allocated, varsTracker, varsNs, varsRun, varsMore>>

\* Function::call entry: new_namespace under a NoLimitTracker; the namespace
\* is filled to namespace_size = 1 slot
HeapNsCall ==
    /\ IF Len(hns.stack) = 1 THEN TRUE ELSE Len(hns.stack[2]) = 0
    /\ LET r == new_namespace(hns, LimitedTracker_new(NoLimits), 1) IN
          /\ r.res.kind = "Ok"
          /\ hns' = [r.ns EXCEPT !.stack[r.id + 1] = <<VUndefined>>]
    /\ UNCHANGED <<hp, temps, allocated, varsTracker, varsNs, varsRun, varsMore>>

\* Function::call exit: drop_with_heap of the function namespace
HeapNsReturn ==
    /\ Len(hns.stack) > 1
    /\ Len(hns.stack[2]) > 0
    /\ LET r == Namespaces_drop_with_heap(hns, hp, LimitedTracker_new(NoLimits), 1) IN
          /\ hns' = r.ns
          /\ hp' = r.heap
    /\ UNCHANGED <<temps, allocated, varsTracker, varsNs, varsRun, varsMore>>

\* resume: the host's return value, converted to a Value, moves into the buffer
HeapPushExt ==
    /\ Len(hns.ext_return_values) < MaxExtBuf
    /\ \E t \in 1..Len(temps) :
          /\ hns' = push_ext_return_value(hns, temps[t])
          /\ temps' = RemoveAt(temps, t)
    /\ UNCHANGED <<hp, allocated, varsTracker, varsNs, varsRun, varsMore>>

\* Callable::call on an ExtFunction: take_ext_return_value
HeapTakeExt ==
    /\ Len(temps) < MaxTemps
    /\ LET r == take_ext_return_value(hns, hp) IN
          /\ r.some
          /\ r.value.t = "Ref" => hp.objects[r.value.v + 1].refcount < MaxRefcount
          /\ hns' = r.ns
          /\ hp' = r.heap
          /\ temps' = Append(temps, r.value)
    /\ UNCHANGED <<allocated, varsTracker, varsNs, varsRun, varsMore>>

\* end of a statement of the module frame: clear_ext_return_values
HeapClearExt ==
    /\ Len(hns.ext_return_values) > 0
    /\ LET r == clear_ext_return_values(hns, hp) IN
          /\ hns' = r.ns
          /\ hp' = r.heap
    /\ UNCHANGED <<temps, allocated, varsTracker, varsNs, varsRun, varsMore>>

NextHeap ==
    \/ HeapAllocate \/ HeapLoadVar \/ HeapStoreVar \/ HeapDropTemp
    \/ HeapListAppend \/ HeapNsCall \/ HeapNsReturn
    \/ HeapPushExt \/ HeapTakeExt \/ HeapClearExt

SpecHeap == InitHeap /\ [][NextHeap]_vars

\* ---------------------------------------------------------------------------
\* Spec: a host driving a run of one program
\* ---------------------------------------------------------------------------
Init ==
    /\ progId \in 1..ProgCount
    /\ run = NewRun
    /\ out = <<>>
    /\ innerExt = FALSE
    /\ progress = NotStarted
    /\ resumes = <<>>
    /\ calls = <<>>
    /\ loads = 0
    /\ IdleMore
    /\ IdleTracker /\ IdleNs /\ IdleHeap

\* The host receives the outcome of an execution of the module frame
Deliver(result) ==
    /\ run' = [ns |-> result.m.ns, heap |-> result.m.heap, p |-> result.p]
    /\ out' = result.m.out
    /\ innerExt' = result.m.innerExt
    /\ progress' = ToProgress(result.exit)
    /\ calls' = IF result.exit.k = "ExternalCall"
                THEN Append(calls, [f |-> result.exit.f, args |-> result.exit.args,
                                    index |-> result.p.stack[Len(result.p.stack)].index])
                ELSE calls

Start ==
    /\ progress.kind = "NotStarted"
    /\ Deliver(MontyRun_start(progId))
    /\ UNCHANGED <<progId, resumes, loads, varsTracker, varsNs, varsHeap, varsMore>>

Resume ==
    /\ progress.kind = "FunctionCall"
    /\ \E return_value \in HostVals :
          /\ Deliver(Snapshot_run(progId, run, out, innerExt, return_value))
          /\ resumes' = Append(resumes, return_value)
    /\ UNCHANGED <<progId, loads, varsTracker, varsNs, varsHeap, varsMore>>

\* The host dumps the suspended run and continues with the loaded copy
DumpLoad ==
    /\ progress.kind = "FunctionCall"
    /\ loads < MaxLoads
    /\ run' = RunProgress_load(RunProgress_dump(run))
    /\ loads' = loads + 1
    /\ UNCHANGED <<progId, out, innerExt, progress, resumes, calls,
                   varsTracker, varsNs, varsHeap, varsMore>>

Next == Start \/ Resume \/ DumpLoad

Spec == Init /\ [][Next]_vars

\* ---------------------------------------------------------------------------
\* SpecEval: evaluate_use and evaluate_discard applied to an expression over the globals
\* ext_fn, ext_g, x, y (slots 0..3), with some external return values buffered
\* ---------------------------------------------------------------------------
Print1 == Call(CallableBuiltin("Print"), <<Constant(1)>>)
Print2 == Call(CallableBuiltin("Print"), <<Constant(2)>>)

EvalExpr(eid) ==
    CASE eid = 1 -> Op(Name(Global(2)), "Add", Name(Global(3)))       \* x + y
      [] eid = 2 -> Op(Name(Global(2)), "And", Name(Global(3)))       \* x and y
      [] eid = 3 -> Op(Name(Global(2)), "Or", Name(Global(3)))        \* x or y
      [] eid = 4 -> Op(CallExt(0, 1), "And", CallExt(1, 2))           \* ext_fn(1) and ext_g(2)
      [] eid = 5 -> Op(CallExt(0, 1), "Or", CallExt(1, 2))            \* ext_fn(1) or ext_g(2)
      [] eid = 6 -> Op(Print1, "And", Print2)                         \* print(1) and print(2)
      [] eid = 7 -> Op(Print1, "Or", Print2)                          \* print(1) or print(2)
      [] eid = 8 -> Call(CallableBuiltin("Print"),                    \* print(x, y)
                         <<Name(Global(2)), Name(Global(3))>>)
      [] eid = 9 -> Op(ListExpr, "Add", Name(Global(3)))              \* [] + y
      [] eid = 10 -> AttrCall(Global(2), "append", <<Name(Global(3))>>) \* x.append(y)
      [] eid = 11 -> AttrCall(Global(2), "append", <<Print1>>)        \* x.append(print(1))
      [] eid = 12 -> Op(Print1, "Add", Print2)                        \* print(1) + print(2)
      [] eid = 13 -> Call(CallableBuiltin("Print"), <<Print1, Print2>>) \* print(print(1), print(2))
      [] eid = 14 -> Call(CallableBuiltin("Print"),                   \* print(x, print(2))
                          <<Name(Global(2)), Print2>>)
      [] eid = 15 -> Subscript(Name(Global(2)), Name(Global(3)))      \* x[y]
      [] eid = 16 -> DictExpr(<<<<Name(Global(2)), Constant(1)>>>>)   \* {x: 1}
      [] OTHER -> Name(Global(2))                                     \* x

\* The values x and y start with
EvalKinds == {"Undefined", "None", "Int0", "Int2", "Str0", "Str1", "List0", "List1"}

MakeValue(heap, kind) ==
    CASE kind = "Undefined" -> [heap |-> heap, v |-> VUndefined]
      [] kind = "None" -> [heap |-> heap, v |-> VNone]
      [] kind = "Int0" -> [heap |-> heap, v |-> VInt(0)]
      [] kind = "Int2" -> [heap |-> heap, v |-> VInt(2)]
      [] OTHER ->
            LET al == Heap_allocate(heap,
                        CASE kind = "Str0" -> HeapStr(0)
                          [] kind = "Str1" -> HeapStr(1)
                          [] kind = "List0" -> HeapList(<<>>)
                          [] OTHER -> HeapList(<<VInt(1)>>))
            IN  [heap |-> al.heap, v |-> VRef(al.id)]

\* The external return values buffered when the evaluation starts
EvalBuffers == {<<>>, <<VInt(2)>>, <<VInt(0), VInt(2)>>, <<VInt(2), VInt(0)>>}

EvalMachine(xk, yk, buffer) ==
    LET x == MakeValue(EmptyHeap, xk)
        y == MakeValue(x.heap, yk)
    IN  Machine([ns |-> [Namespaces_new(<<VExtFunction(0), VExtFunction(1), x.v, y.v>>)
                            EXCEPT !.ext_return_values = buffer],
                 heap |-> y.heap],
                <<>>, FALSE)

InitEval ==
    /\ \E eid \in 1..EvalExprCount, xk \in EvalKinds, yk \in EvalKinds, buffer \in EvalBuffers :
          evl = [done |-> FALSE, eid |-> eid, m0 |-> EvalMachine(xk, yk, buffer),
                 m |-> EvalMachine(xk, yk, buffer), r |-> RNone,
                 ddone |-> FALSE, dm |-> EvalMachine(xk, yk, buffer), dr |-> RNone]
    /\ IdleTake /\ IdleGc /\ IdleDict /\ IdleAux
    /\ IdleTracker /\ IdleNs /\ IdleHeap /\ IdleRun

Evaluate ==
    /\ ~evl.done
    /\ LET res == evaluate_use(evl.m0, GLOBAL_NS_IDX, EvalExpr(evl.eid)) IN
          evl' = [evl EXCEPT !.done = TRUE, !.m = res.m, !.r = res.r]
    /\ UNCHANGED <<tk, gcs, dct, aux, varsOld>>

\* evaluate_discard of the same expression from the same state
Discard ==
    /\ ~evl.ddone
    /\ LET res == evaluate_discard(evl.m0, GLOBAL_NS_IDX, EvalExpr(evl.eid)) IN
          evl' = [evl EXCEPT !.ddone = TRUE, !.dm = res.m, !.dr = res.r]
    /\ UNCHANGED <<tk, gcs, dct, aux, varsOld>>

NextEval == Evaluate \/ Discard

SpecEval == InitEval /\ [][NextEval]_vars

\* ---------------------------------------------------------------------------
\* SpecTake: payloads taken out of their slots.  The heap holds three callables
\* (ids 0..2: FunctionDefaults, Closure, FunctionDefaults) and a list (id 3),
\* each bound to a global name; the guest code calls them and appends to the
\* list, from the module or from the body of a callable that is executing.
\* ---------------------------------------------------------------------------
TakeSlot(kind) == [kind |-> kind, taken |-> FALSE, len |-> 0]

TakeHeap ==
    <<TakeSlot("FunctionDefaults"), TakeSlot("Closure"), TakeSlot("FunctionDefaults"),
      TakeSlot("List")>>

\* take_data!: the payload leaves the slot; panics if it is already out
take_data(t, id, func_name) ==
    IF t.objects[id + 1].taken
    THEN [t EXCEPT !.panic = func_name \o ": data already borrowed"]
    ELSE [t EXCEPT !.objects[id + 1].taken = TRUE]

\* restore_data!
restore_data(t, id) == [t EXCEPT !.objects[id + 1].taken = FALSE]

\* Heap::get: panics while the payload is out
Heap_get(t, id) ==
    IF t.objects[id + 1].taken THEN [t EXCEPT !.panic = "get: data currently borrowed"] ELSE t

InitTake ==
    /\ tk = [objects |-> TakeHeap, stack |-> <<>>, panic |-> "None"]
    /\ IdleEval /\ IdleGc /\ IdleDict /\ IdleAux
    /\ IdleTracker /\ IdleNs /\ IdleHeap /\ IdleRun

\* Callable::call on a name bound to Value::Ref(heap_id): with_entry_mut takes
\* the payload; a Closure or FunctionDefaults runs its body inside the closure
\* of with_entry_mut, anything else is not callable and is restored at once
TakeCall ==
    /\ tk.panic = "None"
    /\ Len(tk.stack) < MaxCallDepth
    /\ \E heap_id \in 0..(Len(tk.objects) - 1) :
          LET t == take_data(tk, heap_id, "with_entry_mut") IN
          tk' = IF t.panic # "None" THEN t
                ELSE IF tk.objects[heap_id + 1].kind \in {"Closure", "FunctionDefaults"}
                THEN [t EXCEPT !.stack = Append(@, heap_id)]
                ELSE restore_data(t, heap_id)
    /\ UNCHANGED <<evl, gcs, dct, aux, varsOld>>

\* The body of the innermost callable returns: with_entry_mut restores the payload
TakeReturn ==
    /\ tk.panic = "None"
    /\ Len(tk.stack) > 0
    /\ tk' = [restore_data(tk, tk.stack[Len(tk.stack)])
                EXCEPT !.stack = SubSeq(@, 1, Len(@) - 1)]
    /\ UNCHANGED <<evl, gcs, dct, aux, varsOld>>

\* attr_call: Heap::call_attr takes the payload, runs the method, restores it
TakeCallAttr ==
    /\ tk.panic = "None"
    /\ \E id \in 0..(Len(tk.objects) - 1) :
          /\ tk.objects[id + 1].len < MaxAppends
          /\ LET t == take_data(tk, id, "call_attr") IN
             tk' = IF t.panic # "None" THEN t
                   ELSE IF tk.objects[id + 1].kind = "List"
                   THEN [restore_data(t, id) EXCEPT !.objects[id + 1].len = @ + 1]
                   ELSE restore_data(t, id)
    /\ UNCHANGED <<evl, gcs, dct, aux, varsOld>>

\* len(x), x == y: Heap::get on the slot
TakeGet ==
    /\ tk.panic = "None"
    /\ \E id \in 0..(Len(tk.objects) - 1) :
          /\ Heap_get(tk, id) # tk
          /\ tk' = Heap_get(tk, id)
    /\ UNCHANGED <<evl, gcs, dct, aux, varsOld>>

NextTake == TakeCall \/ TakeReturn \/ TakeCallAttr \/ TakeGet

SpecTake == InitTake /\ [][NextTake]_vars

\* ---------------------------------------------------------------------------
\* SpecHash: the evaluator allocating strings, lists, dicts and tuples,
\* adding to a string in place, and dropping values.  temps are the values
\* the evaluator owns.
\* ---------------------------------------------------------------------------
\* Str::py_iadd on the payload of slot id: the right operand's contents are
\* pushed onto the string; the slot's other fields are not touched
Str_py_iadd(heap, id, other) ==
    IF other.t = "Ref" /\ heap.objects[other.v + 1].data.kind = "Str"
    THEN [heap |-> [heap EXCEPT !.objects[id + 1].data.s = @ + heap.objects[other.v + 1].data.s],
          handled |-> TRUE]
    ELSE [heap |-> heap, handled |-> FALSE]

get_cached_hash(heap, id) == heap.objects[id + 1].cached_hash

InitHash ==
    /\ hp = EmptyHeap
    /\ hns = Namespaces_new(<<VUndefined>>)
    /\ temps = <<>>
    /\ allocated = <<>>
    /\ IdleTracker /\ IdleNs /\ IdleRun /\ IdleMore

\* a str, list or dict literal
HashAllocate ==
    /\ Len(hp.objects) < MaxHeap + 1
    /\ Len(temps) < MaxTemps
    /\ \E data \in {HeapStr(0), HeapStr(1), HeapList(<<>>), HeapDict(<<>>)} :
          LET r == Heap_allocate(hp, data) IN
          /\ hp' = r.heap
          /\ temps' = Append(temps, VRef(r.id))
    /\ UNCHANGED <<hns, allocated, varsTracker, varsNs, varsRun, varsMore>>

\* a tuple literal: the elements move into the payload
HashAllocateTuple ==
    /\ Len(hp.objects) < MaxHeap + 1
    /\ \/ /\ Len(temps) < MaxTemps
          /\ \E items \in {<<>>, <<VInt(1)>>} :
                LET r == Heap_allocate(hp, HeapTuple(items)) IN
                /\ hp' = r.heap
                /\ temps' = Append(temps, VRef(r.id))
       \/ \E t \in 1..Len(temps) :
             LET r == Heap_allocate(hp, HeapTuple(<<temps[t]>>)) IN
             /\ hp' = r.heap
             /\ temps' = Append(RemoveAt(temps, t), VRef(r.id))
    /\ UNCHANGED <<hns, allocated, varsTracker, varsNs, varsRun, varsMore>>

\* s += t on a string slot (t may be s itself)
HashIAdd ==
    /\ \E a \in 1..Len(temps), b \in 1..Len(temps) :
          LET id == temps[a].v
              other == temps[b]
          IN  /\ hp.objects[id + 1].data.kind = "Str"
              /\ Str_py_iadd(hp, id, other).heap.objects[id + 1].data.s <= MaxStrLen
              /\ hp' = Str_py_iadd(hp, id, other).heap
    /\ UNCHANGED <<hns, temps, allocated, varsTracker, varsNs, varsRun, varsMore>>

\* the evaluator drops a value it owns
HashDrop ==
    /\ \E t \in 1..Len(temps) :
          /\ hp' = Value_drop_with_heap(hp, temps[t])
          /\ temps' = RemoveAt(temps, t)
    /\ UNCHANGED <<hns, allocated, varsTracker, varsNs, varsRun, varsMore>>

NextHash == HashAllocate \/ HashAllocateTuple \/ HashIAdd \/ HashDrop

SpecHash == InitHash /\ [][NextHash]_vars

\* ---------------------------------------------------------------------------
\* SpecVar: one read of a name.  The global namespace has one slot, the local
\* namespace (index 1) two; a slot holds Undefined, an int, a str or a cell,
\* and a cell holds Undefined, an int or a str.
\* ---------------------------------------------------------------------------
\* Heap::get_cell_value: the value in the cell, cloned
get_cell_value(heap, cell_id) ==
    LET value == heap.objects[cell_id + 1].data.items[1] IN
    [heap |-> Value_clone_with_heap(heap, value), v |-> value]

\* Namespaces::get_var_mut: the lookup of get_var on a mutable borrow
get_var_mut(ns, local_idx, ident) == get_var(ns, local_idx, ident)

\* get_var_value that hands out whatever the cell holds
get_var_value_unchecked(ns, local_idx, heap, ident) ==
    IF ident.scope = "Cell"
    THEN LET c == get_cell_value(heap, ns.stack[local_idx + 1][ident.slot + 1].v) IN
         [heap |-> c.heap, r |-> RValue(c.v)]
    ELSE LET var == get_var(ns, IF ident.scope = "Global" THEN GLOBAL_NS_IDX ELSE local_idx,
                            ident)
         IN  IF var.ok
             THEN [heap |-> Value_clone_with_heap(heap, var.value), r |-> RValue(var.value)]
             ELSE [heap |-> heap, r |-> RErr("NameError")]

\* Namespaces::get_var_value
get_var_value(ns, local_idx, heap, ident) ==
    IF ident.scope = "Cell"
    THEN LET c == get_cell_value(heap, ns.stack[local_idx + 1][ident.slot + 1].v) IN
         IF c.v.t = "Undefined"
         THEN [heap |-> c.heap, r |-> RErr("NameError: free variable")]
         ELSE [heap |-> c.heap, r |-> RValue(c.v)]
    ELSE LET var == get_var(ns, IF ident.scope = "Global" THEN GLOBAL_NS_IDX ELSE local_idx,
                            ident)
         IN  IF var.ok
             THEN [heap |-> Value_clone_with_heap(heap, var.value), r |-> RValue(var.value)]
             ELSE [heap |-> heap, r |-> RErr("NameError")]

VarKinds == {"Undefined", "Int", "Str", "CellUndefined", "CellInt", "CellStr"}

MakeVar(heap, kind) ==
    LET str == Heap_allocate(heap, HeapStr(1))
        inner == CASE kind \in {"Undefined", "CellUndefined"} -> [heap |-> heap, v |-> VUndefined]
                   [] kind \in {"Int", "CellInt"} -> [heap |-> heap, v |-> VInt(5)]
                   [] OTHER -> [heap |-> str.heap, v |-> VRef(str.id)]
    IN  IF kind \in {"CellUndefined", "CellInt", "CellStr"}
        THEN LET cell == Heap_allocate(inner.heap, HeapCell(inner.v)) IN
             [heap |-> cell.heap, v |-> VRef(cell.id)]
        ELSE inner

\* The value a name stands for: the slot's, or the cell's for a Cell name;
\* Undefined when the slot does not exist
VarTarget(ns, heap, local_idx, ident) ==
    LET namespace == ns.stack[(IF ident.scope = "Global" THEN GLOBAL_NS_IDX ELSE local_idx) + 1]
    IN  IF ident.slot >= Len(namespace) THEN VUndefined
        ELSE IF ident.scope = "Cell"
        THEN heap.objects[namespace[ident.slot + 1].v + 1].data.items[1]
        ELSE namespace[ident.slot + 1]

IsCellSlot(heap, v) == v.t = "Ref" /\ heap.objects[v.v + 1].data.kind = "Cell"

\* The names the prepare stage can produce for these namespaces: a Cell name
\* for a slot that holds a cell, a Global or Local name for any other slot
VarIdents(ns, heap) ==
    {ident \in {Global(0), Global(1), Local(0), Local(1), Local(2)} :
        LET namespace == ns.stack[(IF ident.scope = "Global" THEN GLOBAL_NS_IDX ELSE 1) + 1] IN
        ident.slot < Len(namespace) => ~IsCellSlot(heap, namespace[ident.slot + 1])}
    \cup {CellIdent(i) : i \in {j \in 0..1 : IsCellSlot(heap, ns.stack[2][j + 1])}}

InitVar ==
    /\ \E gk \in VarKinds \ {"CellUndefined", "CellInt", "CellStr"}, ak \in VarKinds,
          bk \in VarKinds :
          LET g == MakeVar(EmptyHeap, gk)
              a == MakeVar(g.heap, ak)
              b == MakeVar(a.heap, bk)
              ns == [Namespaces_new(<<g.v>>) EXCEPT !.stack = Append(@, <<a.v, b.v>>)]
          IN  \E ident \in VarIdents(ns, b.heap) :
                aux = [ns |-> ns, heap |-> b.heap, ident |-> ident, fn |-> "none",
                       r |-> RNone, after |-> b.heap]
    /\ IdleEval /\ IdleTake /\ IdleGc /\ IdleDict
    /\ IdleTracker /\ IdleNs /\ IdleHeap /\ IdleRun

\* Namespaces::get_var from the function frame (local_idx 1)
VarGet ==
    /\ aux.fn = "none" /\ aux.ident.scope # "Cell"
    /\ LET var == get_var(aux.ns, 1, aux.ident) IN
          aux' = [aux EXCEPT !.fn = "get_var",
                             !.r = IF var.ok THEN RValue(var.value) ELSE RErr("NameError")]
    /\ UNCHANGED <<evl, tk, gcs, dct, varsOld>>

\* Namespaces::get_var_mut from the function frame
VarGetMut ==
    /\ aux.fn = "none" /\ aux.ident.scope # "Cell"
    /\ LET var == get_var_mut(aux.ns, 1, aux.ident) IN
          aux' = [aux EXCEPT !.fn = "get_var_mut",
                             !.r = IF var.ok THEN RValue(var.value) ELSE RErr("NameError")]
    /\ UNCHANGED <<evl, tk, gcs, dct, varsOld>>

\* Namespaces::get_var_value from the function frame
VarGetValue ==
    /\ aux.fn = "none"
    /\ LET res == get_var_value(aux.ns, 1, aux.heap, aux.ident) IN
          aux' = [aux EXCEPT !.fn = "get_var_value", !.r = res.r, !.after = res.heap]
    /\ UNCHANGED <<evl, tk, gcs, dct, varsOld>>

NextVar == VarGet \/ VarGetMut \/ VarGetValue

SpecVar == InitVar /\ [][NextVar]_vars

\* ---------------------------------------------------------------------------
\* SpecGc: a host driving a run whose tracker schedules garbage collection
\* every gc_interval allocations.  The host answers an external call with an
\* int or with a list, which is allocated on the run's heap.
\* ---------------------------------------------------------------------------
DefInc == NodeFunctionDef(Global(2), 2)     \* def inc(a): b = a + 1; return b

GcNodes(pid) ==
    CASE pid = 1 ->  \* def inc..; print([], inc(1))
            <<DefInc,
              NodeExpr(Call(CallableBuiltin("Print"), <<ListExpr, CallFn(2, <<Constant(1)>>)>>))>>
      [] pid = 2 ->  \* x = ext_fn(1); x
            <<NodeAssign(Global(2), CallExt(0, 1)), NodeReturn(Name(Global(2)))>>
      [] pid = 3 ->  \* l = []; y = ext_fn(1); len(l)
            <<NodeAssign(Global(2), ListExpr),
              NodeAssign(Global(3), CallExt(0, 1)),
              NodeReturn(Call(CallableBuiltin("Len"), <<Name(Global(2))>>))>>
      [] pid = 4 ->  \* l = []; l.append([]); x = ext_fn(1); len(l)
            <<NodeAssign(Global(2), ListExpr),
              NodeExpr(AttrCall(Global(2), "append", <<ListExpr>>)),
              NodeAssign(Global(3), CallExt(0, 1)),
              NodeReturn(Call(CallableBuiltin("Len"), <<Name(Global(2))>>))>>
      [] pid = 5 ->  \* x = ext_fn(1); y = ext_g(2); x
            <<NodeAssign(Global(2), CallExt(0, 1)),
              NodeAssign(Global(3), CallExt(1, 2)),
              NodeReturn(Name(Global(2)))>>
      [] OTHER ->    \* l = []; l = []; l
            <<NodeAssign(Global(2), ListExpr),
              NodeAssign(Global(2), ListExpr),
              NodeReturn(Name(Global(2)))>>

GcMachine(g) ==
    [ns |-> g.ns, heap |-> g.heap, out |-> g.out, innerExt |-> FALSE, tracker |-> g.tracker]

\* The state a SpecGc run is left in by an execution of the module frame
GcDeliver(g, result) ==
    [g EXCEPT !.ns = result.m.ns, !.heap = result.m.heap, !.out = result.m.out,
              !.tracker = result.m.tracker, !.p = result.p,
              !.progress = ToProgress(result.exit)]

InitGc ==
    /\ \E pid \in 1..GcProgCount, gi \in OptNat(MaxGcInterval) :
          gcs = [pid |-> pid, ns |-> NewRun.ns, heap |-> NewRun.heap, p |-> NewRun.p,
                 out |-> <<>>,
                 tracker |-> LimitedTracker_new(ResourceLimits(NoneOpt, NoneOpt, gi, NoneOpt)),
                 progress |-> NotStarted, resumed |-> 0]
    /\ IdleEval /\ IdleTake /\ IdleDict /\ IdleAux
    /\ IdleTracker /\ IdleNs /\ IdleHeap /\ IdleRun

\* MontyRun::start
GcStart ==
    /\ gcs.progress.kind = "NotStarted"
    /\ gcs' = GcDeliver(gcs, RunFrame_execute(GcMachine(gcs), GLOBAL_NS_IDX, gcs.p,
                                              GcNodes(gcs.pid)))
    /\ UNCHANGED <<evl, tk, dct, aux, varsOld>>

\* Snapshot::run with an int
GcResumeInt ==
    /\ gcs.progress.kind = "FunctionCall"
    /\ \E n \in HostVals :
          LET m == [GcMachine(gcs) EXCEPT !.ns = push_ext_return_value(@, VInt(n))] IN
          gcs' = [GcDeliver(gcs, RunFrame_execute(m, GLOBAL_NS_IDX, gcs.p, GcNodes(gcs.pid)))
                    EXCEPT !.resumed = @ + 1]
    /\ UNCHANGED <<evl, tk, dct, aux, varsOld>>

\* Snapshot::run with a list: the host's value is allocated on the heap and
\* the buffer owns the reference
GcResumeList ==
    /\ gcs.progress.kind = "FunctionCall"
    /\ LET al == Heap_allocate(gcs.heap, HeapList(<<>>))
           m == [GcMachine(gcs) EXCEPT !.heap = al.heap,
                                       !.tracker = on_allocate(@, 0).t,
                                       !.ns = push_ext_return_value(@, VRef(al.id))]
       IN  gcs' = [GcDeliver(gcs, RunFrame_execute(m, GLOBAL_NS_IDX, gcs.p, GcNodes(gcs.pid)))
                     EXCEPT !.resumed = @ + 1]
    /\ UNCHANGED <<evl, tk, dct, aux, varsOld>>

NextGc == GcStart \/ GcResumeInt \/ GcResumeList

SpecGc == InitGc /\ [][NextGc]_vars

\* ---------------------------------------------------------------------------
\* SpecDict: a guest working on one dict d.  Keys are the ints 1, 2 and 65
\* (1 and 65 hash alike) and a list l held in a variable (heap slot 0).
\* order is the association list Python keeps for d: a new key is appended,
\* an overwrite replaces the value in place, a pop removes the pair.
\* ---------------------------------------------------------------------------
DictHashable == {VInt(1), VInt(2), VInt(65)}
ListKey == VRef(0)
DictKeyValues == DictHashable \cup {ListKey}
DictValues == {VInt(7), VInt(8)}
DictDefaults == {NoDefault, [some |-> TRUE, v |-> VInt(9)]}

OrderPos(order, key) ==
    IF \E i \in 1..Len(order) : order[i].k = key
    THEN CHOOSE i \in 1..Len(order) : order[i].k = key
    ELSE 0

OrderSet(order, key, value) ==
    IF OrderPos(order, key) # 0
    THEN [order EXCEPT ![OrderPos(order, key)].v = value]
    ELSE Append(order, [k |-> key, v |-> value])

OrderPop(order, key) ==
    IF OrderPos(order, key) # 0 THEN RemoveAt(order, OrderPos(order, key)) ELSE order

RECURSIVE OrderOfPairs(_, _)
OrderOfPairs(pairs, order) ==
    IF Len(pairs) = 0 THEN order
    ELSE OrderOfPairs(Tail(pairs), OrderSet(order, pairs[1][1], pairs[1][2]))

DictLast(op, key, value, dflt, before, r, enum, pairs) ==
    [op |-> op, key |-> key, value |-> value, dflt |-> dflt, before |-> before,
     r |-> r, enum |-> enum, pairs |-> pairs]

\* evaluate_use of the key expression: a name bound to the list is cloned
DictOperand(heap, key) == Value_clone_with_heap(heap, key)

DictCanRun(key) ==
    /\ dct.ops < MaxDictOps
    /\ key = ListKey => dct.heap.objects[1].refcount < MaxRefcount

InitDict ==
    /\ dct = [map |-> Dict_new,
              heap |-> Heap_allocate(EmptyHeap, HeapList(<<>>)).heap,
              order |-> <<>>, ops |-> 0,
              last |-> DictLast("none", VNone, VNone, NoDefault, Dict_new, RNone, <<>>, <<>>)]
    /\ IdleEval /\ IdleTake /\ IdleGc /\ IdleAux
    /\ IdleTracker /\ IdleNs /\ IdleHeap /\ IdleRun

\* d = {k1: v1, ...}: on success the new dict replaces the one d was bound
\* to, which is dropped; on an error d keeps its dict
DictLiteral ==
    /\ \E k1 \in DictKeyValues, k2 \in DictKeyValues, v1 \in DictValues, n \in 1..2 :
          LET pairs == SubSeq(<<<<k1, v1>>, <<k2, VInt(8)>>>>, 1, n)
              keys == [i \in 1..n |-> pairs[i][1]]
              fp == from_pairs(pairs, Dict_new, clone_all_with_heap(dct.heap, keys))
          IN  /\ DictCanRun(k1) /\ DictCanRun(k2)
              /\ dct' = [map |-> IF fp.r.k = "Err" THEN dct.map ELSE fp.map,
                         heap |-> IF fp.r.k = "Err" THEN fp.heap
                                  ELSE drop_all_entries(dct.map, fp.heap),
                         order |-> IF fp.r.k = "Err" THEN dct.order
                                   ELSE OrderOfPairs(pairs, <<>>),
                         ops |-> dct.ops + 1,
                         last |-> DictLast("literal",
                                           IF ListKey \in {keys[i] : i \in 1..n}
                                           THEN ListKey ELSE k1,
                                           v1, NoDefault, dct.map, fp.r, <<>>, <<>>)]
    /\ UNCHANGED <<evl, tk, gcs, aux, varsOld>>

\* d[key] = value
DictSetItem ==
    /\ \E key \in DictKeyValues, value \in DictValues :
          LET st == Dict_py_setitem(dct.map, key, value, DictOperand(dct.heap, key)) IN
          /\ DictCanRun(key)
          /\ dct' = [map |-> st.map, heap |-> st.heap,
                     order |-> IF st.r.k = "Err" THEN dct.order
                               ELSE OrderSet(dct.order, key, value),
                     ops |-> dct.ops + 1,
                     last |-> DictLast("setitem", key, value, NoDefault, dct.map, st.r,
                                       <<>>, <<>>)]
    /\ UNCHANGED <<evl, tk, gcs, aux, varsOld>>

\* d[key]: the evaluator drops the key and the result afterwards
DictGetItem ==
    /\ \E key \in DictKeyValues :
          LET g == Dict_py_getitem(dct.map, key, DictOperand(dct.heap, key))
              dropped == Value_drop_with_heap(g.heap, key)
          IN  /\ DictCanRun(key)
              /\ dct' = [dct EXCEPT
                            !.heap = IF g.r.k = "Value"
                                     THEN Value_drop_with_heap(dropped, g.r.v) ELSE dropped,
                            !.ops = @ + 1,
                            !.last = DictLast("getitem", key, VNone, NoDefault, dct.map, g.r,
                                              <<>>, <<>>)]
    /\ UNCHANGED <<evl, tk, gcs, aux, varsOld>>

\* d.get(key[, default])
DictGet ==
    /\ \E key \in DictKeyValues, dflt \in DictDefaults :
          LET g == Dict_attr_get(dct.map, DictOperand(dct.heap, key), key, dflt) IN
          /\ DictCanRun(key)
          /\ dct' = [dct EXCEPT
                        !.heap = IF g.r.k = "Value"
                                 THEN Value_drop_with_heap(g.heap, g.r.v) ELSE g.heap,
                        !.ops = @ + 1,
                        !.last = DictLast("get", key, VNone, dflt, dct.map, g.r, <<>>, <<>>)]
    /\ UNCHANGED <<evl, tk, gcs, aux, varsOld>>

\* d.pop(key[, default])
DictPop ==
    /\ \E key \in DictKeyValues, dflt \in DictDefaults :
          LET p == Dict_attr_pop(dct.map, DictOperand(dct.heap, key), key, dflt) IN
          /\ DictCanRun(key)
          /\ dct' = [map |-> p.map,
                     heap |-> IF p.r.k = "Value"
                              THEN Value_drop_with_heap(p.heap, p.r.v) ELSE p.heap,
                     order |-> IF p.r.k = "Err" THEN dct.order ELSE OrderPop(dct.order, key),
                     ops |-> dct.ops + 1,
                     last |-> DictLast("pop", key, VNone, dflt, dct.map, p.r, <<>>, <<>>)]
    /\ UNCHANGED <<evl, tk, gcs, aux, varsOld>>

\* Dict::keys, Dict::values, Dict::items and py_repr
DictEnumerate ==
    /\ dct.ops < MaxDictOps
    /\ \E op \in {"keys", "values", "items", "repr"} :
          dct' = [dct EXCEPT
                    !.ops = @ + 1,
                    !.last = DictLast(op, VNone, VNone, NoDefault, dct.map, RNone,
                                      CASE op = "keys" -> Dict_keys(dct.map)
                                        [] op = "values" -> Dict_values(dct.map)
                                        [] OTHER -> <<>>,
                                      CASE op = "items" -> Dict_items(dct.map)
                                        [] op = "repr" -> Dict_py_repr(dct.map)
                                        [] OTHER -> <<>>)]
    /\ UNCHANGED <<evl, tk, gcs, aux, varsOld>>

NextDict ==
    \/ DictLiteral \/ DictSetItem \/ DictGetItem \/ DictGet \/ DictPop \/ DictEnumerate

SpecDict == InitDict /\ [][NextDict]_vars

\* ---------------------------------------------------------------------------
\* SpecRuns: a host running one compiled program several times, through
\* Executor::run_with_limits and through the Python binding's Monty.run.
\* aux is the executor and the runs made so far, each with what the host
\* passed and what the run left behind.
\* ---------------------------------------------------------------------------
\* Executor: the declared input names take the first slots of the namespace
Executor(eid) ==
    CASE eid = 1 -> [eid |-> 1, input_names |-> <<"x">>, namespace_size |-> 1]
      [] eid = 2 -> [eid |-> 2, input_names |-> <<"x">>, namespace_size |-> 1]
      [] eid = 3 -> [eid |-> 3, input_names |-> <<"x">>, namespace_size |-> 2]
      [] eid = 4 -> [eid |-> 4, input_names |-> <<"x">>, namespace_size |-> 2]
      [] OTHER -> [eid |-> eid, input_names |-> <<>>, namespace_size |-> 0]

\* Executor.nodes
ExecNodes(eid) ==
    CASE eid = 1 ->  \* x + 1
            <<NodeReturn(Op(Name(Global(0)), "Add", Constant(1)))>>
      [] eid = 2 ->  \* print(1); x
            <<NodeExpr(Call(CallableBuiltin("Print"), <<Constant(1)>>)),
              NodeReturn(Name(Global(0)))>>
      [] eid = 3 ->  \* y = x + x; y
            <<NodeAssign(Global(1), Op(Name(Global(0)), "Add", Name(Global(0)))),
              NodeReturn(Name(Global(1)))>>
      [] eid = 4 ->  \* l = []; l.append(x); len(l)
            <<NodeAssign(Global(1), ListExpr),
              NodeExpr(AttrCall(Global(1), "append", <<Name(Global(0))>>)),
              NodeReturn(Call(CallableBuiltin("Len"), <<Name(Global(1))>>))>>
      [] OTHER ->    \* print(1); 2
            <<NodeExpr(Call(CallableBuiltin("Print"), <<Constant(1)>>)),
              NodeReturn(Constant(2))>>

\* Heap::new kept in a field of the executor: the heap and tracker of the
\* previous run
Heap_new_kept(capacity, tracker) ==
    IF aux.runs = <<>> THEN [heap |-> EmptyHeap, tracker |-> tracker]
    ELSE [heap |-> aux.runs[Len(aux.runs)].heap, tracker |-> aux.runs[Len(aux.runs)].tracker]

\* Heap::new: an empty heap owning the tracker
Heap_new(capacity, tracker) == [heap |-> EmptyHeap, tracker |-> tracker]

\* Executor::prepare_namespaces: the inputs in the first slots, Undefined in
\* the others
prepare_namespaces(self, inputs) ==
    IF Len(inputs) > self.namespace_size
    THEN [ok |-> FALSE, ns |-> Namespaces_new(<<>>)]
    ELSE [ok |-> TRUE,
          ns |-> Namespaces_new([i \in 1..self.namespace_size |->
                                   IF i <= Len(inputs) THEN VInt(inputs[i]) ELSE VUndefined])]

\* Executor::run_with_tracker
run_with_tracker(self, inputs, tracker) ==
    LET h == Heap_new(self.namespace_size, tracker)
        prepared == prepare_namespaces(self, inputs)
        m == [ns |-> prepared.ns, heap |-> h.heap, out |-> <<>>, innerExt |-> FALSE,
              tracker |-> h.tracker]
    IN  IF ~prepared.ok THEN [m |-> m, r |-> RErr("input length")]
        ELSE Bind(RunFrame_execute(m, GLOBAL_NS_IDX, NoSnapshotTracker, ExecNodes(self.eid)),
                  LAMBDA e : [m |-> e.m, r |-> map_result(e.exit)])

\* Executor::run_with_limits
run_with_limits(self, inputs, limits) == run_with_tracker(self, inputs, LimitedTracker_new(limits))

\* PyMonty::extract_input_values: inputs is the optional dict of the call
extract_input_values(self, inputs) ==
    IF self.input_names = <<>>
    THEN IF inputs.some THEN RErr("TypeError") ELSE RArgs(<<>>)
    ELSE IF ~inputs.some THEN RErr("TypeError")
    ELSE IF \E i \in 1..Len(self.input_names) : self.input_names[i] \notin DOMAIN inputs.v
    THEN RErr("KeyError")
    ELSE RArgs([i \in 1..Len(self.input_names) |-> inputs.v[self.input_names[i]]])

\* PyMonty::run without external functions
PyMonty_run(self, inputs, limits) ==
    LET input_values == extract_input_values(self, inputs) IN
    IF input_values.k = "Err"
    THEN [m |-> [ns |-> Namespaces_new(<<>>), heap |-> EmptyHeap, out |-> <<>>,
                 innerExt |-> FALSE, tracker |-> LimitedTracker_new(limits)],
          r |-> input_values]
    ELSE run_with_limits(self, input_values.args, limits)

\* The values and the dicts a host passes
RunInputs == {1, 2}
RunNames == {"x", "z"}
RunDicts == UNION {[names -> RunInputs] : names \in SUBSET RunNames}
Pairs(d) == {<<name, d[name]>> : name \in DOMAIN d}

RunRecord(api, none, given, inputs, res) ==
    [api |-> api, none |-> none, given |-> given, inputs |-> inputs,
     r |-> res.r, out |-> res.m.out, heap |-> res.m.heap, tracker |-> res.m.tracker]

InitRuns ==
    /\ \E eid \in 1..ExecCount : aux = [exec |-> Executor(eid), runs |-> <<>>]
    /\ IdleEval /\ IdleTake /\ IdleGc /\ IdleDict
    /\ IdleTracker /\ IdleNs /\ IdleHeap /\ IdleRun

\* Executor::run_with_limits with any number of values
RunRust ==
    /\ Len(aux.runs) < MaxRuns
    /\ \E n \in 0..MaxRunInputs : \E inputs \in [1..n -> RunInputs] :
          aux' = [aux EXCEPT !.runs = Append(@,
                     RunRecord("rust", FALSE, {}, inputs,
                               run_with_limits(aux.exec, inputs, NoLimits)))]
    /\ UNCHANGED <<evl, tk, gcs, dct, varsOld>>

\* Monty.run(inputs = d)
RunPy ==
    /\ Len(aux.runs) < MaxRuns
    /\ \E d \in RunDicts :
          aux' = [aux EXCEPT !.runs = Append(@,
                     RunRecord("py", FALSE, Pairs(d), <<>>,
                               PyMonty_run(aux.exec, Some(d), NoLimits)))]
    /\ UNCHANGED <<evl, tk, gcs, dct, varsOld>>

\* Monty.run()
RunPyNone ==
    /\ Len(aux.runs) < MaxRuns
    /\ aux' = [aux EXCEPT !.runs = Append(@,
                  RunRecord("py", TRUE, {}, <<>>, PyMonty_run(aux.exec, NoneOpt, NoLimits)))]
    /\ UNCHANGED <<evl, tk, gcs, dct, varsOld>>

NextRuns == RunRust \/ RunPy \/ RunPyNone

SpecRuns == InitRuns /\ [][NextRuns]_vars

\* ---------------------------------------------------------------------------
\* SpecArgs: a guest passing arguments to list methods, Dict::set and calls
\* of names.  Heap slot 0 is a list l and slot 1 a list c, each held by one
\* variable; an argument is an int or a new reference to l.  aux records the
\* latest operation: the heap when the arguments were handed over, the heap
\* it returned with, and its result.
\* ---------------------------------------------------------------------------
\* check_arg_count::<N>: the arguments as an array, or all of them dropped
check_arg_count(heap, n, args) ==
    IF Len(args) = n THEN [heap |-> heap, ok |-> TRUE]
    ELSE [heap |-> drop_all_with_heap(heap, args), ok |-> FALSE]

\* List::insert
List_insert(items, index, item) ==
    IF index >= Len(items) THEN Append(items, item)
    ELSE SubSeq(items, 1, index) \o <<item>> \o SubSeq(items, index + 1, Len(items))

\* List::py_call_attr on the list in slot id
List_py_call_attr(heap, id, attr, args) ==
    CASE attr = "append" ->
            LET checked == check_arg_count(heap, 1, args) IN
            IF ~checked.ok THEN [heap |-> checked.heap, r |-> RErr("TypeError")]
            ELSE [heap |-> [heap EXCEPT !.objects[id + 1].data.items = Append(@, args[1])],
                  r |-> RValue(VNone)]
      [] attr = "insert" ->
            LET checked == check_arg_count(heap, 2, args) IN
            IF ~checked.ok THEN [heap |-> checked.heap, r |-> RErr("TypeError")]
            ELSE IF args[1].t # "Int" THEN [heap |-> heap, r |-> RErr("TypeError")]
            ELSE [heap |-> [heap EXCEPT !.objects[id + 1].data.items =
                                List_insert(@, args[1].v, args[2])],
                  r |-> RValue(VNone)]
      [] OTHER -> [heap |-> heap, r |-> RErr("AttributeError")]

ArgValues == {VInt(0), VRef(0)}
ArgLists == UNION {[1..n -> ArgValues] : n \in 0..2}
ArgsAttrs == {"append", "insert", "pop"}
\* Global slots: Undefined, an int, the list c, the list l
ArgsNamespace == Namespaces_new(<<VUndefined, VInt(3), VRef(1), VRef(0)>>)
ArgsCallables == {Global(0), Global(1), Global(2)}

ArgsLast(op, args, passed, after, r) ==
    [op |-> op, args |-> args, passed |-> passed, after |-> after, r |-> r]

InitArgs ==
    /\ LET l == Heap_allocate(EmptyHeap, HeapList(<<>>))
           c == Heap_allocate(l.heap, HeapList(<<>>))
       IN  aux = [heap |-> c.heap, map |-> Dict_new, ops |-> 0,
                  last |-> ArgsLast("none", <<>>, c.heap, c.heap, RNone)]
    /\ IdleEval /\ IdleTake /\ IdleGc /\ IdleDict
    /\ IdleTracker /\ IdleNs /\ IdleHeap /\ IdleRun

\* c.attr(args...)
ArgsListCallAttr ==
    /\ aux.ops < MaxArgOps
    /\ \E attr \in ArgsAttrs, args \in ArgLists :
          LET passed == clone_all_with_heap(aux.heap, args)
              res == List_py_call_attr(passed, 1, attr, args)
          IN  aux' = [aux EXCEPT !.heap = res.heap, !.ops = @ + 1,
                                 !.last = ArgsLast("call_attr", args, passed, res.heap, res.r)]
    /\ UNCHANGED <<evl, tk, gcs, dct, varsOld>>

\* Dict::set(key, value)
ArgsDictSet ==
    /\ aux.ops < MaxArgOps
    /\ \E key \in ArgValues, value \in ArgValues :
          LET passed == clone_all_with_heap(aux.heap, <<key, value>>)
              res == Dict_set(aux.map, key, value, passed)
              \* the caller owns the replaced value and drops it
              after == IF res.r.k = "Value" THEN Value_drop_with_heap(res.heap, res.r.v)
                       ELSE res.heap
          IN  aux' = [aux EXCEPT !.heap = after, !.map = res.map, !.ops = @ + 1,
                                 !.last = ArgsLast("set", <<key, value>>, passed, after, res.r)]
    /\ UNCHANGED <<evl, tk, gcs, dct, varsOld>>

\* name(args...) for a name that is undefined, an int or a list
ArgsCall ==
    /\ aux.ops < MaxArgOps
    /\ \E ident \in ArgsCallables, args \in ArgLists :
          LET passed == clone_all_with_heap(aux.heap, args)
              m == [ns |-> ArgsNamespace, heap |-> passed, out |-> <<>>, innerExt |-> FALSE,
                    tracker |-> NoLimitTracker]
              res == Callable_call(m, GLOBAL_NS_IDX, CallableName(ident), args)
          IN  aux' = [aux EXCEPT !.heap = res.m.heap, !.ops = @ + 1,
                                 !.last = ArgsLast("call", args, passed, res.m.heap, res.r)]
    /\ UNCHANGED <<evl, tk, gcs, dct, varsOld>>

NextArgs == ArgsListCallAttr \/ ArgsDictSet \/ ArgsCall

SpecArgs == InitArgs /\ [][NextArgs]_vars

\* ---------------------------------------------------------------------------
\* SpecSchedule: a run that keeps allocating under one tracker and collects
\* garbage at the statement boundary whenever the tracker asks for it.
\* aux is the tracker: a NoLimitTracker, or a LimitedTracker under any limits.
\* ---------------------------------------------------------------------------
Sched_should_gc(s) ==
    IF s.kind = "NoLimit" THEN NoLimit_should_gc(s.t) ELSE should_gc(s.t)

InitSchedule ==
    /\ \/ aux = [kind |-> "NoLimit", t |-> NoLimitTracker_default]
       \/ \E ma \in OptNat(MaxAllocLimit), mm \in OptNat(MaxMemLimit),
             gi \in OptNat(MaxGcInterval) :
             aux = [kind |-> "Limited",
                    t |-> LimitedTracker_new(ResourceLimits(ma, mm, gi, NoneOpt))]
    /\ IdleEval /\ IdleTake /\ IdleGc /\ IdleDict
    /\ IdleTracker /\ IdleNs /\ IdleHeap /\ IdleRun

\* Heap::allocate: on_allocate before the slot is taken
SchedAllocate ==
    /\ ~Sched_should_gc(aux)
    /\ IF aux.kind = "NoLimit"
       THEN aux' = [aux EXCEPT !.t = NoLimit_on_allocate(@)]
       ELSE /\ aux.t.allocation_count < MaxTrackerCalls
            /\ \E size \in 0..MaxSize : aux' = [aux EXCEPT !.t = on_allocate(@, size).t]
    /\ UNCHANGED <<evl, tk, gcs, dct, varsOld>>

\* The statement boundary: should_gc, collect, on_gc_complete
SchedGcComplete ==
    /\ Sched_should_gc(aux)
    /\ aux' = [aux EXCEPT !.t = IF aux.kind = "NoLimit" THEN NoLimit_on_gc_complete(@)
                                ELSE on_gc_complete(@)]
    /\ UNCHANGED <<evl, tk, gcs, dct, varsOld>>

NextSchedule == SchedAllocate \/ SchedGcComplete

SpecSchedule == InitSchedule /\ [][NextSchedule]_vars /\ WF_vars(SchedAllocate)

\* ---------------------------------------------------------------------------
\* SpecIAdd: a guest running a += a and a += b.  Heap slot 0 is a str s,
\* slot 1 a list b, slot 2 the list a; each is held by one variable and a's
\* items are ints and references to s and b.
\* ---------------------------------------------------------------------------
\* py_iadd that copies its own items without counting the new references
List_py_iadd_uncounted(heap, id, other, self_id) ==
    IF other.t # "Ref" THEN [heap |-> heap, handled |-> FALSE]
    ELSE IF heap.objects[other.v + 1].data.kind # "List"
    THEN [heap |-> heap, handled |-> FALSE]
    ELSE LET rhs == heap.objects[other.v + 1].data.items
             counted == IF self_id = Some(other.v) THEN heap ELSE clone_all_with_heap(heap, rhs)
         IN  [heap |-> Value_drop_with_heap(
                           [counted EXCEPT !.objects[id + 1].data.items = @ \o rhs], other),
              handled |-> TRUE]

\* List::py_iadd on the list in slot id: other's items, each with a new
\* reference, are appended and other is dropped; a right operand that is
\* the list itself is cloned from the list's own items
List_py_iadd(heap, id, other, self_id) ==
    IF other.t # "Ref" THEN [heap |-> heap, handled |-> FALSE]
    ELSE IF self_id = Some(other.v)
    THEN LET rhs == heap.objects[id + 1].data.items
             cloned == clone_all_with_heap(heap, rhs)
         IN  [heap |-> Value_drop_with_heap(
                           [cloned EXCEPT !.objects[id + 1].data.items = @ \o rhs], other),
              handled |-> TRUE]
    ELSE IF heap.objects[other.v + 1].data.kind # "List"
    THEN [heap |-> heap, handled |-> FALSE]
    ELSE LET rhs == heap.objects[other.v + 1].data.items
             counted == clone_all_with_heap(heap, rhs)
         IN  [heap |-> Value_drop_with_heap(
                           [counted EXCEPT !.objects[id + 1].data.items = @ \o rhs], other),
              handled |-> TRUE]

IAddItems == {VInt(7), VRef(0), VRef(1)}

InitIAdd ==
    /\ \E n \in 0..MaxIAddLen, k \in 0..1 :
       \E items \in [1..n -> IAddItems] :
          LET s == Heap_allocate(EmptyHeap, HeapStr(1))
              bitems == [i \in 1..k |-> VRef(0)]
              b == Heap_allocate(clone_all_with_heap(s.heap, bitems), HeapList(bitems))
              a == Heap_allocate(clone_all_with_heap(b.heap, items), HeapList(items))
          IN  aux = [heap |-> a.heap, op |-> "none", before |-> a.heap, handled |-> FALSE]
    /\ IdleEval /\ IdleTake /\ IdleGc /\ IdleDict
    /\ IdleTracker /\ IdleNs /\ IdleHeap /\ IdleRun

\* a += a: the right operand is a new reference to a
IAddSelf ==
    /\ aux.op = "none"
    /\ LET res == List_py_iadd(Value_clone_with_heap(aux.heap, VRef(2)), 2, VRef(2), Some(2))
       IN  aux' = [aux EXCEPT !.heap = res.heap, !.op = "self", !.handled = res.handled]
    /\ UNCHANGED <<evl, tk, gcs, dct, varsOld>>

\* a += b and a += s
IAddOther ==
    /\ aux.op = "none"
    /\ \E id \in 0..1 :
          LET res == List_py_iadd(Value_clone_with_heap(aux.heap, VRef(id)), 2, VRef(id),
                                  Some(2))
          IN  aux' = [aux EXCEPT !.heap = res.heap, !.op = "other", !.handled = res.handled]
    /\ UNCHANGED <<evl, tk, gcs, dct, varsOld>>

NextIAdd == IAddSelf \/ IAddOther

SpecIAdd == InitIAdd /\ [][NextIAdd]_vars

\* ---------------------------------------------------------------------------
\* SpecConv: the result of a run converted to the external object tree.
\* The heap holds two containers, each a list or a dict (keys 0, 1, ..), whose
\* items are ints and references to the two containers.
\* ---------------------------------------------------------------------------
\* MontyObject
ObjNone == [tag |-> "None", n |-> 0, items |-> <<>>, ph |-> ""]
ObjInt(n) == [tag |-> "Int", n |-> n, items |-> <<>>, ph |-> ""]
ObjList(items) == [tag |-> "List", n |-> 0, items |-> items, ph |-> ""]
\* Dict: items is the sequence of <<key, value>> pairs
ObjDict(pairs) == [tag |-> "Dict", n |-> 0, items |-> pairs, ph |-> ""]
ObjCycle(id, placeholder) == [tag |-> "Cycle", n |-> id, items |-> <<>>, ph |-> placeholder]

Placeholder(data) == IF data.kind = "List" THEN "[...]" ELSE "{...}"

\* The conversion with one set of ids for the whole walk: an id stays in
\* the set after its container has been left
RECURSIVE to_object_seen(_, _, _)
RECURSIVE to_objects_seen(_, _, _, _)
to_object_seen(heap, value, seen) ==
    IF value.t = "Int" THEN [obj |-> ObjInt(value.v), seen |-> seen]
    ELSE IF value.t # "Ref" THEN [obj |-> ObjNone, seen |-> seen]
    ELSE LET data == heap.objects[value.v + 1].data IN
         IF value.v \in seen
         THEN [obj |-> ObjCycle(value.v, Placeholder(data)), seen |-> seen]
         ELSE LET c == to_objects_seen(heap, data.items, seen \cup {value.v}, <<>>) IN
              [obj |-> IF data.kind = "List" THEN ObjList(c.objs)
                       ELSE ObjDict([i \in 1..(Len(c.objs) \div 2) |->
                                       <<c.objs[2 * i - 1], c.objs[2 * i]>>]),
               seen |-> c.seen]
to_objects_seen(heap, items, seen, acc) ==
    IF Len(items) = 0 THEN [objs |-> acc, seen |-> seen]
    ELSE LET c == to_object_seen(heap, items[1], seen) IN
         to_objects_seen(heap, Tail(items), c.seen, Append(acc, c.obj))

to_object_global(heap, value, visited) == to_object_seen(heap, value, visited).obj

\* MontyObject::new: visited is the ids of the containers being converted
\* on the way from the root to this value
RECURSIVE to_object(_, _, _)
to_object(heap, value, visited) ==
    IF value.t = "Int" THEN ObjInt(value.v)
    ELSE IF value.t # "Ref" THEN ObjNone
    ELSE LET data == heap.objects[value.v + 1].data
             inner == visited \cup {value.v}
         IN  IF value.v \in visited THEN ObjCycle(value.v, Placeholder(data))
             ELSE IF data.kind = "List"
             THEN ObjList([i \in 1..Len(data.items) |-> to_object(heap, data.items[i], inner)])
             ELSE ObjDict([i \in 1..(Len(data.items) \div 2) |->
                             <<to_object(heap, data.items[2 * i - 1], inner),
                               to_object(heap, data.items[2 * i], inner)>>])

\* repr of a sequence of values, pieces joined by ", "; depth is the number
\* of py_repr calls on the native stack, which holds MaxReprDepth of them
RECURSIVE Value_py_repr(_, _, _)
RECURSIVE repr_items(_, _, _, _, _)
repr_items(heap, items, i, depth, acc) ==
    IF i > Len(items) THEN [ok |-> TRUE, s |-> acc]
    ELSE LET repr == Value_py_repr(heap, items[i], depth) IN
         IF ~repr.ok THEN repr
         ELSE repr_items(heap, items, i + 1, depth,
                         acc \o (IF i > 1 THEN <<", ">> ELSE <<>>) \o repr.s)

\* repr_sequence
repr_sequence(start, end, items, heap, depth) ==
    LET inner == repr_items(heap, items, 1, depth, <<>>) IN
    IF ~inner.ok THEN inner ELSE [ok |-> TRUE, s |-> <<start>> \o inner.s \o <<end>>]

\* List::py_repr
List_py_repr(heap, items, depth) == repr_sequence("[", "]", items, heap, depth)

\* Dict::py_repr of the pairs from index i on: "key: value" pieces
RECURSIVE repr_pairs(_, _, _, _, _)
repr_pairs(heap, items, i, depth, acc) ==
    IF 2 * i > Len(items) THEN [ok |-> TRUE, s |-> acc \o <<"}">>]
    ELSE LET key_repr == Value_py_repr(heap, items[2 * i - 1], depth)
             val_repr == Value_py_repr(heap, items[2 * i], depth)
         IN  IF ~key_repr.ok THEN key_repr
             ELSE IF ~val_repr.ok THEN val_repr
             ELSE repr_pairs(heap, items, i + 1, depth,
                             acc \o (IF i > 1 THEN <<", ">> ELSE <<>>)
                                 \o key_repr.s \o <<": ">> \o val_repr.s)

Dict_py_repr_text(heap, items, depth) ==
    IF Len(items) = 0 THEN [ok |-> TRUE, s |-> <<"{}">>]
    ELSE repr_pairs(heap, items, 1, depth, <<"{">>)

\* HeapData::py_repr
HeapData_py_repr(heap, data, depth) ==
    IF data.kind = "List" THEN List_py_repr(heap, data.items, depth)
    ELSE Dict_py_repr_text(heap, data.items, depth)

\* Value::py_repr: an int's digits, a Ref's payload
Value_py_repr(heap, v, depth) ==
    IF v.t = "Int" THEN [ok |-> TRUE, s |-> <<"int">>]
    ELSE IF depth >= MaxReprDepth THEN [ok |-> FALSE, s |-> <<>>]
    ELSE HeapData_py_repr(heap, heap.objects[v.v + 1].data, depth + 1)

ConvIds == {0, 1}
ConvValues == {VInt(5)} \cup {VRef(id) : id \in ConvIds}
ConvItems == UNION {[1..n -> ConvValues] : n \in 0..MaxConvItems}
ConvData(kind, items) ==
    IF kind = "List" THEN HeapList(items)
    ELSE HeapDict(Flatten([i \in 1..Len(items) |-> <<VInt(i - 1), items[i]>>]))
\* Each container is held by a variable, by the items that refer to it and,
\* if it is the result, by the run's return value
ConvObject(kind, items, holders) ==
    [live |-> TRUE, refcount |-> 1 + holders, data |-> ConvData(kind, items),
     cached_hash |-> NoneOpt]
ConvHolders(i0, i1, root, id) == RefsIn(i0, id) + RefsIn(i1, id) + (IF root = id THEN 1 ELSE 0)

InitConv ==
    /\ \E k0 \in {"List", "Dict"}, k1 \in {"List", "Dict"}, i0 \in ConvItems, i1 \in ConvItems,
          root \in ConvIds :
          aux = [heap |-> [objects |-> <<ConvObject(k0, i0, ConvHolders(i0, i1, root, 0)),
                                         ConvObject(k1, i1, ConvHolders(i0, i1, root, 1))>>,
                           panic |-> FALSE],
                 root |-> root, done |-> FALSE, tree |-> ObjNone,
                 rdone |-> FALSE, repr |-> [ok |-> TRUE, s |-> <<>>]]
    /\ IdleEval /\ IdleTake /\ IdleGc /\ IdleDict
    /\ IdleTracker /\ IdleNs /\ IdleHeap /\ IdleRun

\* The run completes with the container in slot root
Convert ==
    /\ ~aux.done
    /\ aux' = [aux EXCEPT !.done = TRUE, !.tree = to_object(aux.heap, VRef(aux.root), {})]
    /\ UNCHANGED <<evl, tk, gcs, dct, varsOld>>

\* repr(result): the text as a sequence of pieces, or the native stack
\* exhausted
Repr ==
    /\ ~aux.rdone
    /\ aux' = [aux EXCEPT !.rdone = TRUE, !.repr = Value_py_repr(aux.heap, VRef(aux.root), 0)]
    /\ UNCHANGED <<evl, tk, gcs, dct, varsOld>>

NextConv == Convert \/ Repr

SpecConv == InitConv /\ [][NextConv]_vars

\* ---------------------------------------------------------------------------
\* SpecIntern: the prepare stage interning string and bytes literals.  aux is
\* the InternerBuilder and the calls made so far with the ids they returned.
\* ---------------------------------------------------------------------------
\* InternerBuilder::build_base, with two of the pre-interned strings
InternerBuilder_new ==
    [string_map |-> [s \in {"<module>", "append"} |-> IF s = "<module>" THEN 0 ELSE 1],
     strings |-> <<"<module>", "append">>,
     bytes |-> <<>>]

\* intern that stores the string again on every call
intern_push(self, s) ==
    [self |-> [self EXCEPT !.strings = Append(@, s),
                           !.string_map = [x \in DOMAIN @ \cup {s} |-> Len(self.strings)]],
     id |-> Len(self.strings)]

\* InternerBuilder::intern: string_map.entry(s).or_insert_with(push)
intern(self, s) ==
    IF s \in DOMAIN self.string_map
    THEN [self |-> self, id |-> self.string_map[s]]
    ELSE [self |-> [self EXCEPT !.strings = Append(@, s),
                                !.string_map = [x \in DOMAIN @ \cup {s} |->
                                                  IF x = s THEN Len(self.strings) ELSE @[x]]],
          id |-> Len(self.strings)]

\* InternerBuilder::intern_bytes
intern_bytes(self, b) ==
    [self |-> [self EXCEPT !.bytes = Append(@, b)], id |-> Len(self.bytes)]

\* get_str / get_bytes
get_str(self, id) == self.strings[id + 1]
get_bytes(self, id) == self.bytes[id + 1]

InternStrs == {"<module>", "append", "x", "y", ""}
InternBytes == {<<>>, <<1>>, <<1, 2>>}

InitIntern ==
    /\ aux = [interner |-> InternerBuilder_new, log |-> <<>>]
    /\ IdleEval /\ IdleTake /\ IdleGc /\ IdleDict
    /\ IdleTracker /\ IdleNs /\ IdleHeap /\ IdleRun

Intern ==
    /\ Len(aux.log) < MaxInterns
    /\ \E s \in InternStrs :
          LET res == intern(aux.interner, s) IN
          aux' = [interner |-> res.self,
                  log |-> Append(aux.log, [op |-> "intern", s |-> s, b |-> <<>>, id |-> res.id])]
    /\ UNCHANGED <<evl, tk, gcs, dct, varsOld>>

InternBytesCall ==
    /\ Len(aux.log) < MaxInterns
    /\ \E b \in InternBytes :
          LET res == intern_bytes(aux.interner, b) IN
          aux' = [interner |-> res.self,
                  log |-> Append(aux.log, [op |-> "bytes", s |-> "", b |-> b, id |-> res.id])]
    /\ UNCHANGED <<evl, tk, gcs, dct, varsOld>>

NextIntern == Intern \/ InternBytesCall

SpecIntern == InitIntern /\ [][NextIntern]_vars

\* ---------------------------------------------------------------------------
\* SpecCall: guest functions called with any argument list.  Global slots:
\* the external function, the list l, the function inner.  aux.last is the
\* latest call: the function, the arguments, the result.
\* ---------------------------------------------------------------------------
CallValues == {VInt(1), VNone, VRef(0)}
CallArgs == UNION {[1..n -> CallValues] : n \in 0..2}
CallNamespace == Namespaces_new(<<VExtFunction(0), VRef(0), VFunction(0)>>)

InitCall ==
    /\ LET l == Heap_allocate(EmptyHeap, HeapList(<<>>))
       IN  aux = [ns |-> CallNamespace, heap |-> l.heap, calls |-> 0,
                  last |-> [f |-> 0, args |-> <<>>, r |-> RNone]]
    /\ IdleEval /\ IdleTake /\ IdleGc /\ IdleDict
    /\ IdleTracker /\ IdleNs /\ IdleHeap /\ IdleRun

\* f(args...): the caller passes its own references to the arguments
CallFunction ==
    /\ aux.calls < MaxCalls
    /\ \E f_id \in 0..(Len(Functions) - 1), args \in CallArgs :
          LET passed == clone_all_with_heap(aux.heap, args)
              m == [ns |-> aux.ns, heap |-> passed, out |-> <<>>, innerExt |-> FALSE,
                    tracker |-> NoLimitTracker]
              res == Function_call(m, f_id, args)
          IN  aux' = [ns |-> res.m.ns, heap |-> res.m.heap, calls |-> aux.calls + 1,
                      last |-> [f |-> f_id, args |-> args, r |-> res.r]]
    /\ UNCHANGED <<evl, tk, gcs, dct, varsOld>>

NextCall == CallFunction

SpecCall == InitCall /\ [][NextCall]_vars

\* ---------------------------------------------------------------------------
\* SpecDrop: references from outside the heap are cloned and dropped over an
\* acyclic graph of lists.  aux.held[id + 1] is the number of references to
\* id held outside the heap, aux.last the latest dec_ref and the heap before it.
\* ---------------------------------------------------------------------------
DropIds == 0..(DropObjects - 1)

\* The items a list may hold: ints and references to lists allocated before it
DropItems(id) ==
    UNION {[1..n -> {VInt(0)} \cup {VRef(j) : j \in 0..(id - 1)}] : n \in 0..MaxDropItems}

\* References to id among the items of the first n slots that are live
RECURSIVE HeapRefsUpTo(_, _, _)
HeapRefsUpTo(heap, id, n) ==
    IF n = 0 THEN 0
    ELSE (IF heap.objects[n].live THEN RefsIn(heap.objects[n].data.items, id) ELSE 0)
         + HeapRefsUpTo(heap, id, n - 1)

HeapRefsTo(heap, id) == HeapRefsUpTo(heap, id, Len(heap.objects))

InitDrop ==
    /\ \E items \in [DropIds -> UNION {DropItems(id) : id \in DropIds}],
          held \in [1..DropObjects -> 0..MaxHeld] :
          /\ \A id \in DropIds : items[id] \in DropItems(id)
          /\ LET built == [objects |->
                              [i \in 1..DropObjects |->
                                  [live |-> TRUE, refcount |-> 1,
                                   data |-> HeapList(items[i - 1]), cached_hash |-> NoneOpt]],
                           panic |-> FALSE]
                 heap == [built EXCEPT !.objects =
                              [i \in 1..DropObjects |->
                                  [@[i] EXCEPT !.refcount = held[i] + HeapRefsTo(built, i - 1)]]]
             IN  /\ \A i \in 1..DropObjects : heap.objects[i].refcount >= 1
                 /\ aux = [heap |-> heap, held |-> held,
                           last |-> [made |-> FALSE, id |-> 0, before |-> heap]]
    /\ IdleEval /\ IdleTake /\ IdleGc /\ IdleDict
    /\ IdleTracker /\ IdleNs /\ IdleHeap /\ IdleRun

\* Value::clone_with_heap on a reference held outside the heap
DropClone ==
    /\ \E id \in DropIds :
          /\ aux.held[id + 1] > 0
          /\ aux.held[id + 1] < MaxHeld
          /\ aux' = [aux EXCEPT !.heap = Value_clone_with_heap(@, VRef(id)),
                                !.held[id + 1] = @ + 1,
                                !.last = [made |-> FALSE, id |-> id, before |-> aux.heap]]
    /\ UNCHANGED <<evl, tk, gcs, dct, varsOld>>

\* Value::drop_with_heap on a reference held outside the heap
DropRef ==
    /\ \E id \in DropIds :
          /\ aux.held[id + 1] > 0
          /\ aux' = [aux EXCEPT !.heap = Value_drop_with_heap(@, VRef(id)),
                                !.held[id + 1] = @ - 1,
                                !.last = [made |-> TRUE, id |-> id, before |-> aux.heap]]
    /\ UNCHANGED <<evl, tk, gcs, dct, varsOld>>

NextDrop == DropClone \/ DropRef

SpecDrop == InitDrop /\ [][NextDrop]_vars

\* ---------------------------------------------------------------------------
\* SpecPairs: dict literals built by Dict::from_pairs.  The heap holds the
\* list l (slot 0), the str s (slot 1) and the list v (slot 2), each bound to
\* a variable.  aux.last is the latest call: the pairs, the heap before the
\* operands were evaluated, the heap and the dict when from_pairs returned.
\* ---------------------------------------------------------------------------
PairKeys == {VInt(1), VInt(2), VRef(1), VRef(0)}
PairValues == {VInt(7), VRef(2)}
PairLists == UNION {[1..n -> PairKeys \X PairValues] : n \in 0..MaxPairs}

\* The keys and the values of a list of pairs, as the evaluator produced them
PairOperands(pairs) ==
    [i \in 1..(2 * Len(pairs)) |-> pairs[(i + 1) \div 2][2 - (i % 2)]]

InitPairs ==
    /\ LET l == Heap_allocate(EmptyHeap, HeapList(<<>>))
           s == Heap_allocate(l.heap, HeapStr(1))
           v == Heap_allocate(s.heap, HeapList(<<>>))
       IN  aux = [heap |-> v.heap, ops |-> 0,
                  last |-> [made |-> FALSE, pairs |-> <<>>, before |-> v.heap,
                            after |-> v.heap, map |-> Dict_new, r |-> RNone]]
    /\ IdleEval /\ IdleTake /\ IdleGc /\ IdleDict
    /\ IdleTracker /\ IdleNs /\ IdleHeap /\ IdleRun

\* {k1: v1, ...} as an expression statement: the operands are evaluated (a
\* name is cloned), from_pairs takes them, and the dict is dropped again
PairsLiteral ==
    /\ aux.ops < MaxPairOps
    /\ \E pairs \in PairLists :
          LET passed == clone_all_with_heap(aux.heap, PairOperands(pairs))
              fp == from_pairs(pairs, Dict_new, passed)
          IN  aux' = [heap |-> IF fp.r.k = "Err" THEN fp.heap
                               ELSE drop_all_entries(fp.map, fp.heap),
                      ops |-> aux.ops + 1,
                      last |-> [made |-> TRUE, pairs |-> pairs, before |-> aux.heap,
                                after |-> fp.heap, map |-> fp.map, r |-> fp.r]]
    /\ UNCHANGED <<evl, tk, gcs, dct, varsOld>>

NextPairs == PairsLiteral

SpecPairs == InitPairs /\ [][NextPairs]_vars

\* ---------------------------------------------------------------------------
\* SpecPos: the calls frames make on a SnapshotTracker.  aux.p is the tracker,
\* aux.log the calls made so far: the operation, its argument, and for next
\* the position it returned.
\* ---------------------------------------------------------------------------
\* ClauseState::If(false), ClauseState::If(true)
ClauseStates == {0, 1}

PosCall(op, arg, position) == [op |-> op, arg |-> arg, position |-> position]

InitPos ==
    /\ aux = [p |-> SnapshotTracker_new(<<>>), log |-> <<>>]
    /\ IdleEval /\ IdleTake /\ IdleGc /\ IdleDict
    /\ IdleTracker /\ IdleNs /\ IdleHeap /\ IdleRun

PosSetClauseState ==
    /\ Len(aux.log) < MaxPosCalls
    /\ \E clause_state \in ClauseStates :
          aux' = [p |-> Tracker_set_clause_state(aux.p, clause_state),
                  log |-> Append(aux.log, PosCall("set", clause_state, CodePosition_default))]
    /\ UNCHANGED <<evl, tk, gcs, dct, varsOld>>

PosRecord ==
    /\ Len(aux.log) < MaxPosCalls
    /\ \E index \in 0..MaxPosIndex :
          aux' = [p |-> Tracker_record(aux.p, index),
                  log |-> Append(aux.log, PosCall("record", index, CodePosition_default))]
    /\ UNCHANGED <<evl, tk, gcs, dct, varsOld>>

PosNext ==
    /\ Len(aux.log) < MaxPosCalls
    /\ LET n == Tracker_next(aux.p) IN
          aux' = [p |-> n.p, log |-> Append(aux.log, PosCall("next", 0, n.position))]
    /\ UNCHANGED <<evl, tk, gcs, dct, varsOld>>

NextPos == PosSetClauseState \/ PosRecord \/ PosNext

SpecPos == InitPos /\ [][NextPos]_vars

\* ===========================================================================
\* Claims
\* ===========================================================================

\* Number of successful on_allocate calls among the first n logged calls
RECURSIVE OkCount(_, _)
OkCount(log, n) ==
    IF n = 0 THEN 0
    ELSE OkCount(log, n - 1) + (IF log[n].kind = "Ok" THEN 1 ELSE 0)

\* C9: with max_allocations = N, on_allocate succeeds for exactly the first N
\* allocations and fails every later call with Allocation{limit: N, count: N+1};
\* no call fails with an allocation error before N allocations were made.
AllocationLimitExact ==
    trk.limits.max_allocations.some =>
        LET N == trk.limits.max_allocations.v IN
        /\ trk.allocation_count <= N
        /\ \A i \in 1..Len(trkLog) :
              IF OkCount(trkLog, i - 1) >= N
              THEN trkLog[i] = ErrAllocation(N, N + 1)
              ELSE trkLog[i].kind # "Allocation"
        /\ ~trk.limits.max_memory.some =>
              \A i \in 1..Len(trkLog) : (trkLog[i].kind = "Ok") <=> (i <= N)

\* N = 2 allocations succeeded and the third was refused
AllocationLimitHit ==
    /\ trk.limits.max_allocations = Some(2)
    /\ Len(trkLog) = 3
    /\ trkLog[1].kind = "Ok" /\ trkLog[2].kind = "Ok"
    /\ trkLog[3].kind = "Allocation"

\* C11: with max_memory = M an on_allocate(size) call that is not refused by
\* the allocation-count limit fails with Memory{limit: M, used: current_memory
\* + size} exactly when current_memory + size > M and then changes no counter;
\* otherwise it succeeds and adds size to current_memory.
MemoryLimitExact ==
    trkLast.made /\ trk.limits.max_memory.some =>
        LET M == trk.limits.max_memory.v
            res == trkLog[Len(trkLog)]
            used == trkLast.before.current_memory + trkLast.size
        IN  res.kind # "Allocation" =>
                IF used > M
                THEN res = ErrMemory(M, used) /\ trkLast.after = trkLast.before
                ELSE res = ResOk /\ trkLast.after.current_memory = used

\* an allocation brought the usage to exactly M and the next one was refused
MemoryLimitHit ==
    /\ trk.limits.max_memory.some
    /\ Len(trkLog) >= 2
    /\ trkLog[Len(trkLog) - 1] = ResOk
    /\ trkLast.before.current_memory = trk.limits.max_memory.v
    /\ trkLast.size > 0
    /\ trkLog[Len(trkLog)].kind = "Memory"

\* C10: a function call fails with Resource::Recursion exactly when the number
\* of function calls active at the call has reached the configured maximum
\* depth (a call made after deeper calls returned is judged by its own depth).
RecursionExactlyAtDepth ==
    lastCall.made =>
        ((lastCall.res.kind = "Recursion")
            <=> (lastCall.depth >= ctrk.limits.max_recursion_depth.v))

\* Sum of f[i] for i in 1..n
RECURSIVE SumTo(_, _)
SumTo(f, n) == IF n = 0 THEN 0 ELSE f[n] + SumTo(f, n - 1)

\* Number of holders of Ref(id): namespace slots, the external-return buffer,
\* evaluator temporaries, payloads of live heap slots
Holders(id) ==
    SumTo([n \in 1..Len(hns.stack) |-> RefsIn(hns.stack[n], id)], Len(hns.stack))
    + RefsIn(hns.ext_return_values, id)
    + RefsIn(temps, id)
    + SumTo([i \in 1..Len(hp.objects) |->
                IF hp.objects[i].live THEN RefsIn(hp.objects[i].data.items, id) ELSE 0],
            Len(hp.objects))

\* C3: the refcount of every live heap slot equals the number of Ref values
\* that point at it from namespace slots, the external-return buffer,
\* evaluator temporaries and the payloads of live heap slots.
RefcountEqualsHolders ==
    \A id \in 0..(Len(hp.objects) - 1) :
        HeapLive(hp, id) => hp.objects[id + 1].refcount = Holders(id)

PFunctionCall(f_id, args) ==
    [kind |-> "FunctionCall", f |-> f_id, args |-> args, value |-> VNone, err |-> "None"]
PComplete(value) ==
    [kind |-> "Complete", f |-> 0, args |-> <<>>, value |-> value, err |-> "None"]

HostValues(r) == [i \in 1..Len(r) |-> VInt(r[i])]

\* One uninterrupted execution of the module in which the i-th external call
\* returns r[i] directly: the frame does not track positions, the values are
\* consumed in call order and never cleared; an external call beyond r ends it
Direct(pid, r) ==
    RunFrame_execute(
        Machine([NewRun EXCEPT !.ns.ext_return_values = HostValues(r)], <<>>, FALSE),
        GLOBAL_NS_IDX, NoSnapshotTracker, Nodes(pid))

\* The external functions called by an expression of the module, in
\* evaluation order (arguments first, left operand first)
RECURSIVE ExtSeq(_)
RECURSIVE ExtSeqArgs(_)
ExtSeqArgs(args) == IF Len(args) = 0 THEN <<>> ELSE ExtSeq(args[1]) \o ExtSeqArgs(Tail(args))
ExtSeq(expr) ==
    CASE expr.k = "Op" -> ExtSeq(expr.left) \o ExtSeq(expr.right)
      [] expr.k = "AttrCall" -> ExtSeqArgs(expr.args)
      [] expr.k = "Call" ->
            ExtSeqArgs(expr.args)
            \o (IF expr.callable.k = "Name" /\ expr.callable.ident.scope = "Global"
                   /\ expr.callable.ident.slot < ExtCount
                THEN <<expr.callable.ident.slot>> ELSE <<>>)
      [] OTHER -> <<>>
ExtSeqNode(node) == IF node.k = "FunctionDef" THEN <<>> ELSE ExtSeq(node.e)

\* The side effects ("E": a print, a list mutation) and external calls ("X")
\* of an expression of the module, in evaluation order
RECURSIVE EventSeq(_)
RECURSIVE EventSeqArgs(_)
EventSeqArgs(args) ==
    IF Len(args) = 0 THEN <<>> ELSE EventSeq(args[1]) \o EventSeqArgs(Tail(args))
EventSeq(expr) ==
    CASE expr.k = "Op" -> EventSeq(expr.left) \o EventSeq(expr.right)
      [] expr.k = "AttrCall" -> EventSeqArgs(expr.args) \o <<"E">>
      [] expr.k = "Call" ->
            EventSeqArgs(expr.args)
            \o (IF expr.callable.k = "Builtin"
                THEN (IF expr.callable.b = "Print" THEN <<"E">> ELSE <<>>)
                ELSE (IF ExtSeq(Call(expr.callable, <<>>)) # <<>> THEN <<"X">> ELSE <<>>))
      [] OTHER -> <<>>

\* Programs in which nothing with a side effect is evaluated ahead of an
\* external call of the same statement
SideEffectFree ==
    {pid \in 1..ProgCount :
        \A s \in 1..Len(Nodes(pid)) :
            Nodes(pid)[s].k # "FunctionDef" =>
                LET ev == EventSeq(Nodes(pid)[s].e) IN
                ~\E i, j \in 1..Len(ev) : i < j /\ ev[i] = "E" /\ ev[j] = "X"}

CallsAt(s) == {i \in 1..Len(calls) : calls[i].index = s}

\* C1: for `x = ext_fn(1); y = ext_fn(2); x + y` the run surfaces
\* FunctionCall(ext_fn, [1]), after resume(10) FunctionCall(ext_fn, [2]), after
\* resume(20) Complete(30).  In general every external call of the module
\* suspends the run once, in program order: the i-th suspension is the i-th
\* call of the uninterrupted execution, each resume answers exactly one
\* suspension, and (where no side effect precedes a call) the reported
\* arguments and the final value are those of the uninterrupted execution in
\* which the i-th call returns the i-th supplied value.
ExternalCallsSuspendInOrder ==
    /\ progId = 1 /\ progress.kind # "NotStarted" =>
          /\ resumes = <<>> => progress = PFunctionCall(0, <<VInt(1)>>)
          /\ resumes = <<10>> => progress = PFunctionCall(0, <<VInt(2)>>)
          /\ resumes = <<10, 20>> => progress = PComplete(VInt(30))
    /\ progress.kind # "NotStarted" =>
          /\ Len(calls) = Len(resumes) + (IF progress.kind = "FunctionCall" THEN 1 ELSE 0)
          /\ \A i \in 1..Len(calls) :
                LET d == ToProgress(Direct(progId, SubSeq(resumes, 1, i - 1)).exit) IN
                /\ d.kind = "FunctionCall"
                /\ d.f = calls[i].f
                /\ progId \in SideEffectFree => d.args = calls[i].args
          /\ progId \in SideEffectFree => progress = ToProgress(Direct(progId, resumes).exit)

\* the example run completed with 30 after the two resumes
ExampleCompleted ==
    progId = 1 /\ resumes = <<10, 20>> /\ progress = PComplete(VInt(30)) /\ Len(calls) = 2

\* C2: a run driven by start and successive resumes with r ends with the same
\* value as one uninterrupted execution in which the i-th external call
\* returns r[i].
ResumeMatchesUninterrupted ==
    progress.kind = "Complete" => progress = ToProgress(Direct(progId, resumes).exit)

\* C5: an external call evaluated inside the body of a guest function, at any
\* call depth, suspends the run and is surfaced to the host as a FunctionCall.
InnerExternalCallSuspends ==
    innerExt => progress.kind = "FunctionCall"

\* C6: a statement with k external calls suspends k times, once per call in
\* evaluation order; when it is suspended for the (j+1)-th time the j values
\* supplied so far are buffered in order and all j have been taken by the
\* first j calls, and the call surfaced is the (j+1)-th.
SuspensionsPerStatement ==
    /\ progress.kind = "FunctionCall" =>
          LET s == calls[Len(calls)].index
              j == Cardinality(CallsAt(s)) - 1
              ext == ExtSeqNode(Nodes(progId)[s + 1])
          IN  /\ j < Len(ext)
              /\ progress.f = ext[j + 1]
              /\ run.ns.ext_return_values =
                    HostValues(SubSeq(resumes, Len(resumes) - j + 1, Len(resumes)))
              /\ run.ns.next_ext_return_value = j
    /\ progress.kind = "Complete" =>
          \A s \in 0..(Len(Nodes(progId)) - 1) :
              Cardinality(CallsAt(s)) = Len(ExtSeqNode(Nodes(progId)[s + 1]))
    /\ \A i \in 1..(Len(calls) - 1) : calls[i].index <= calls[i + 1].index

\* the statement with three external calls is suspended at its third call
ThirdCallSuspended ==
    /\ progId = 4
    /\ progress.kind = "FunctionCall"
    /\ Cardinality(CallsAt(0)) = 3
    /\ Len(run.ns.ext_return_values) = 2

\* C7: over a whole suspend/resume sequence every side effect of the statement
\* (prints, list mutations) is performed exactly once: the output written and
\* the list contents are those of the uninterrupted execution.
SideEffectsExactlyOnce ==
    progress.kind \in {"FunctionCall", "Complete"} =>
        LET d == Direct(progId, resumes) IN
        /\ out = d.m.out
        /\ Len(run.heap.objects) = Len(d.m.heap.objects)
        /\ \A i \in 1..Len(run.heap.objects) :
              run.heap.objects[i].data = d.m.heap.objects[i].data

OwnedRefs(m, values, id) ==
    SumTo([n \in 1..Len(m.ns.stack) |-> RefsIn(m.ns.stack[n], id)], Len(m.ns.stack))
    + RefsIn(m.ns.ext_return_values, id)
    + RefsIn(values, id)
    + SumTo([i \in 1..Len(m.heap.objects) |->
                IF m.heap.objects[i].live THEN RefsIn(m.heap.objects[i].data.items, id) ELSE 0],
            Len(m.heap.objects))

\* C12: when evaluate_use returns Ok(value) the only reference the evaluation
\* leaves outstanding is the one owned by value; when it returns Err it leaves
\* none: every live slot's refcount equals the references held by the
\* namespaces, the buffer and the heap, plus the returned value.
EvaluationLeavesOneReference ==
    evl.done /\ evl.r.k \in {"Value", "Err"} =>
        /\ ~evl.m.heap.panic
        /\ \A id \in 0..(Len(evl.m.heap.objects) - 1) :
              HeapLive(evl.m.heap, id) =>
                  evl.m.heap.objects[id + 1].refcount
                  = OwnedRefs(evl.m, IF evl.r.k = "Value" THEN <<evl.r.v>> ELSE <<>>, id)

\* The values of x and y, and the buffered values, an evaluation started with
EvalX == evl.m0.ns.stack[1][3]
EvalY == evl.m0.ns.stack[1][4]
EvalBuffer == evl.m0.ns.ext_return_values

\* C20: `x and y` evaluates x once; if x is falsy the result is x's value
\* itself and y is not evaluated, otherwise the result is y's value.  `x or y`
\* gives x's value itself without evaluating y if x is truthy, otherwise y's
\* value.  The result is the operand, never a bool made from it.
ShortCircuitGivesOperand ==
    evl.done =>
        /\ evl.eid \in {2, 3} /\ EvalX.t # "Undefined" =>
              IF py_bool(evl.m0.heap, EvalX) = (evl.eid = 3)
              THEN evl.r = RValue(EvalX)
              ELSE IF EvalY.t = "Undefined" THEN evl.r = RErr("NameError")
              ELSE evl.r = RValue(EvalY)
        /\ evl.eid \in {4, 5} /\ Len(EvalBuffer) = 2 =>
              IF py_bool(evl.m0.heap, EvalBuffer[1]) = (evl.eid = 5)
              THEN evl.r = RValue(EvalBuffer[1]) /\ evl.m.ns.next_ext_return_value = 1
              ELSE evl.r = RValue(EvalBuffer[2]) /\ evl.m.ns.next_ext_return_value = 2
        /\ evl.eid = 6 => evl.r = RValue(VNone) /\ evl.m.out = <<<<1>>>>
        /\ evl.eid = 7 => evl.r = RValue(VNone) /\ evl.m.out = <<<<1>>, <<2>>>>

\* `x and y` with a truthy int x gave y's value, a non-empty list
ShortCircuitAndTookRight ==
    /\ evl.done /\ evl.eid = 2
    /\ EvalX = VInt(2)
    /\ EvalY.t = "Ref" /\ evl.r = RValue(EvalY)
    /\ KindOf(evl.m.heap, EvalY) = "List"

\* C13: while a slot's payload is taken out by with_entry_mut or call_attr no
\* execution takes or gets that slot again: no access finds the payload
\* missing, also during calls of Closure and FunctionDefaults callables
\* (recursive ones included), whose body runs inside with_entry_mut.
NoAccessWhileTaken ==
    tk.panic = "None"

\* The Ref values in a sequence of values all point to live slots
AllLive(heap, values) ==
    \A i \in 1..Len(values) : values[i].t = "Ref" => HeapLive(heap, values[i].v)

\* C14: garbage collection never frees a slot that is referenced from a
\* namespace, from the external-return buffer, from the suspended run or from
\* a value the evaluator holds: no reference is found dangling during the
\* run, and afterwards every Ref in the namespaces, in the buffer, in the
\* arguments handed to the host, in the result and in live payloads points to
\* a live slot.
GcKeepsReferencedSlots ==
    gcs.progress.kind # "NotStarted" =>
        /\ ~gcs.heap.panic
        /\ \A n \in 1..Len(gcs.ns.stack) : AllLive(gcs.heap, gcs.ns.stack[n])
        /\ AllLive(gcs.heap, gcs.ns.ext_return_values)
        /\ AllLive(gcs.heap, gcs.progress.args)
        /\ AllLive(gcs.heap, <<gcs.progress.value>>)
        /\ \A i \in 1..Len(gcs.heap.objects) :
              gcs.heap.objects[i].live => AllLive(gcs.heap, gcs.heap.objects[i].data.items)

\* C15: a cached hash that is Some equals the hash of the payload currently
\* stored in the slot, in every state from allocation until the slot is
\* freed, in-place additions included.
CachedHashIsHashOfPayload ==
    \A i \in 1..Len(hp.objects) :
        hp.objects[i].live /\ get_cached_hash(hp, i - 1).some =>
            get_cached_hash(hp, i - 1) = compute_hash_if_immutable(hp, hp.objects[i].data)

\* The elements of a payload that have no hash
Unhashable(heap, data) ==
    {i \in 1..Len(data.items) : ~py_hash_u64(heap, data.items[i]).some}

EnumerationInInsertionOrder ==
    /\ dct.last.op = "keys" =>
          dct.last.enum = [i \in 1..Len(dct.order) |-> dct.order[i].k]
    /\ dct.last.op = "values" =>
          dct.last.enum = [i \in 1..Len(dct.order) |-> dct.order[i].v]
    /\ dct.last.op \in {"items", "repr"} =>
          dct.last.pairs = [i \in 1..Len(dct.order) |-> <<dct.order[i].k, dct.order[i].v>>]

\* C18: after d[k] = x with a hashable k, d[k] gives x, the length has grown
\* by one exactly when k was absent, and every other key has the value it
\* had before.
SetThenGet ==
    dct.last.op = "setitem" /\ dct.last.key \in DictHashable =>
        /\ dct.last.r = RNone
        /\ Dict_py_getitem(dct.map, dct.last.key, dct.heap).r = RValue(dct.last.value)
        /\ Dict_len(dct.map) =
              Dict_len(dct.last.before)
              + (IF Dict_get(dct.last.before, dct.last.key, dct.heap) = RNone THEN 1 ELSE 0)
        /\ \A k \in DictHashable \ {dct.last.key} :
              Dict_get(dct.map, k, dct.heap) = Dict_get(dct.last.before, k, dct.heap)

\* d[65] = x on a dict that holds 1 (same hash as 65) and 2
SetCollidingKey ==
    /\ dct.last.op = "setitem" /\ dct.last.key = VInt(65)
    /\ Dict_get(dct.last.before, VInt(1), dct.heap).k = "Value"
    /\ Dict_get(dct.last.before, VInt(2), dct.heap).k = "Value"
    /\ Dict_get(dct.last.before, VInt(65), dct.heap) = RNone
    /\ Dict_len(dct.map) = 3

\* C19: an unhashable key in a dict literal, d[k] = x, d[k], get or pop
\* raises TypeError and leaves the entries as they were.
UnhashableKeyRaises ==
    dct.last.key = ListKey /\ dct.last.op \in {"literal", "setitem", "getitem", "get", "pop"} =>
        /\ dct.last.r = RErr("TypeError")
        /\ dct.map = dct.last.before

\* C21: the side effects and exceptions of the sub-expressions of an
\* expression occur in left-to-right source order: the prints of two operands
\* or arguments appear in source order, and when the leftmost sub-expression
\* (the first argument, or the receiver of an attribute call) is an unbound
\* name, NameError is raised before anything to its right has had an effect.
EffectsLeftToRight ==
    evl.done =>
        /\ evl.eid = 12 => evl.m.out = <<<<1>>, <<2>>>> /\ evl.r = RErr("TypeError")
        /\ evl.eid = 13 => evl.m.out = <<<<1>>, <<2>>, <<0 - 1, 0 - 1>>>>
        /\ evl.eid \in {11, 14} /\ EvalX.t = "Undefined" =>
              evl.r = RErr("NameError") /\ evl.m.out = <<>>

\* C22: evaluate_discard has the side effects and the exception (or none)
\* of evaluate_use followed by dropping the result: the same outcome, the same
\* output, the same namespaces and buffer cursor, and the same state of every
\* heap slot that existed before.
DiscardMatchesUse ==
    evl.done /\ evl.ddone =>
        LET used == IF evl.r.k = "Value"
                    THEN Value_drop_with_heap(evl.m.heap, evl.r.v) ELSE evl.m.heap
        IN  /\ evl.dr.k = (IF evl.r.k = "Value" THEN "None" ELSE evl.r.k)
            /\ evl.dr.err = evl.r.err
            /\ evl.dm.out = evl.m.out
            /\ evl.dm.ns = evl.m.ns
            /\ \A i \in 1..Len(evl.m0.heap.objects) : evl.dm.heap.objects[i] = used.objects[i]

MismatchedInputs(self, r) ==
    IF r.api = "rust" THEN Len(r.inputs) # Len(self.input_names)
    ELSE IF r.none THEN self.input_names # <<>>
    ELSE {p[1] : p \in r.given} # {self.input_names[i] : i \in 1..Len(self.input_names)}

MismatchedInputsRejected ==
    \A i \in 1..Len(aux.runs) :
        MismatchedInputs(aux.exec, aux.runs[i]) =>
            /\ aux.runs[i].r.err \in {"input length", "TypeError", "KeyError"}
            /\ aux.runs[i].out = <<>>
            /\ aux.runs[i].heap = EmptyHeap

\* C26: whenever a container method or call returns an error, every argument
\* reference that was passed to it has been released: each object's refcount
\* is what it was when the arguments were handed over, less the arguments
\* that refer to it.
ArgsReleasedOnError ==
    aux.last.r.k = "Err" =>
        \A id \in 0..1 :
            aux.last.after.objects[id + 1].refcount =
                aux.last.passed.objects[id + 1].refcount - RefsIn(aux.last.args, id)

SelfExtendDoubles ==
    aux.op = "self" =>
        LET old == aux.before.objects[3].data.items
            new == aux.heap.objects[3].data.items
            n == Len(old)
        IN  /\ aux.handled
            /\ Len(new) = 2 * n
            /\ \A i \in 1..n : new[i] = old[i] /\ new[n + i] = old[i]
            /\ \A id \in 0..1 :
                  aux.heap.objects[id + 1].refcount =
                      aux.before.objects[id + 1].refcount + RefsIn(old, id)
            /\ aux.heap.objects[3].refcount = aux.before.objects[3].refcount
            /\ ~aux.heap.panic

\* a = [s, b, 7]; a += a
SelfExtendOfThree ==
    /\ aux.op = "self"
    /\ aux.before.objects[3].data.items = <<VRef(0), VRef(1), VInt(7)>>
    /\ aux.heap.objects[3].data.items =
           <<VRef(0), VRef(1), VInt(7), VRef(0), VRef(1), VInt(7)>>
    /\ aux.heap.objects[1].refcount = 3

\* The tree is the conversion of the value below the ancestors: an int is
\* itself, a container that is one of the ancestors is Cycle(id, placeholder),
\* any other container is converted item by item, in full
RECURSIVE ConvertedBelow(_, _, _, _)
ConvertedBelow(heap, tree, value, ancestors) ==
    IF value.t # "Ref" THEN tree = ObjInt(value.v)
    ELSE LET data == heap.objects[value.v + 1].data
             below == ancestors \cup {value.v}
         IN  IF value.v \in ancestors
             THEN tree = ObjCycle(value.v, IF data.kind = "List" THEN "[...]" ELSE "{...}")
             ELSE IF data.kind = "List"
             THEN /\ tree.tag = "List"
                  /\ Len(tree.items) = Len(data.items)
                  /\ \A i \in 1..Len(data.items) :
                        ConvertedBelow(heap, tree.items[i], data.items[i], below)
             ELSE /\ tree.tag = "Dict"
                  /\ 2 * Len(tree.items) = Len(data.items)
                  /\ \A i \in 1..Len(tree.items) :
                        /\ ConvertedBelow(heap, tree.items[i][1], data.items[2 * i - 1], below)
                        /\ ConvertedBelow(heap, tree.items[i][2], data.items[2 * i], below)

\* C29: the conversion to the external object tree terminates and emits
\* Cycle(id, placeholder) exactly where a container's heap id is re-entered on
\* the current traversal path; a shared container that is not an ancestor is
\* converted in full each time.
CycleExactlyOnPath ==
    aux.done => ConvertedBelow(aux.heap, aux.tree, VRef(aux.root), {})

\* a = []; a.append(a); [a, a]
SharedCycleTwice ==
    /\ aux.done /\ aux.root = 1
    /\ aux.heap.objects[1].data = HeapList(<<VRef(0)>>)
    /\ aux.heap.objects[2].data = HeapList(<<VRef(0), VRef(0)>>)
    /\ aux.tree = ObjList(<<ObjList(<<ObjCycle(0, "[...]")>>), ObjList(<<ObjCycle(0, "[...]")>>)>>)

\* The ids of the containers referred to by the items of container id
Children(heap, id) ==
    {heap.objects[id + 1].data.items[i].v :
        i \in {j \in 1..Len(heap.objects[id + 1].data.items) :
                  heap.objects[id + 1].data.items[j].t = "Ref"}}

RECURSIVE Reachable(_, _)
Reachable(heap, ids) ==
    LET next == ids \cup UNION {Children(heap, id) : id \in ids} IN
    IF next = ids THEN ids ELSE Reachable(heap, next)

\* Some container in the value contains itself
SelfContaining(heap, root) ==
    \E id \in Reachable(heap, {root}) : id \in Reachable(heap, Children(heap, id))

\* C30: repr of a list or dict terminates, and for one that contains itself
\* the text has the placeholder [...] or {...}.
ReprTerminates ==
    aux.rdone =>
        /\ aux.repr.ok
        /\ SelfContaining(aux.heap, aux.root) =>
              \E i \in 1..Len(aux.repr.s) : aux.repr.s[i] \in {"[...]", "{...}"}

\* C31: intern returns the same id for equal strings and different ids for
\* different strings, get_str(intern(s)) = s for every id handed out so far;
\* intern_bytes returns a fresh id on every call, with
\* get_bytes(intern_bytes(b)) = b.
InternDeduplicates ==
    \A i, j \in 1..Len(aux.log) :
        LET a == aux.log[i]
            c == aux.log[j]
        IN  /\ a.op = "intern" => get_str(aux.interner, a.id) = a.s
            /\ a.op = "bytes" => get_bytes(aux.interner, a.id) = a.b
            /\ a.op = "intern" /\ c.op = "intern" => ((a.s = c.s) <=> (a.id = c.id))
            /\ a.op = "bytes" /\ c.op = "bytes" /\ i # j => a.id # c.id

\* x interned twice around y, and the same bytes interned twice
InternedTwice ==
    /\ Len(aux.log) = 4
    /\ aux.log[1].op = "intern" /\ aux.log[1].s = "x"
    /\ aux.log[2].op = "bytes" /\ aux.log[2].b = <<1>>
    /\ aux.log[3].op = "intern" /\ aux.log[3].s = "x" /\ aux.log[3].id = aux.log[1].id
    /\ aux.log[4].op = "bytes" /\ aux.log[4].b = <<1>> /\ aux.log[4].id # aux.log[2].id

\* C32: every namespace obtained by Function::call is released before the
\* call returns, whether the body returns, the body raises or the binding of
\* the arguments fails: between calls every function namespace is empty and
\* its index is on the free list.
NamespaceReleasedOnEveryExit ==
    (aux.calls > 0) =>
        \A i \in 1..(Len(aux.ns.stack) - 1) :
            /\ aux.ns.stack[i + 1] = <<>>
            /\ \E j \in 1..Len(aux.ns.reuse_ids) : aux.ns.reuse_ids[j] = i

\* C33: dec_ref on a slot whose refcount is 1 vacates it and applies one
\* dec_ref to each reference it owned, transitively: every live slot's
\* refcount is at least 1 and equals the references to it from outside plus
\* those from live slots, no vacated slot is referenced, an acyclic graph is
\* vacated entirely once the last outside reference is dropped, and a slot
\* that had another reference is only decremented.
DecRefCascades ==
    /\ ~aux.heap.panic
    /\ \A id \in DropIds :
          IF aux.heap.objects[id + 1].live
          THEN /\ aux.heap.objects[id + 1].refcount >= 1
               /\ aux.heap.objects[id + 1].refcount =
                      aux.held[id + 1] + HeapRefsTo(aux.heap, id)
          ELSE aux.held[id + 1] = 0 /\ HeapRefsTo(aux.heap, id) = 0
    /\ (\A id \in DropIds : aux.held[id + 1] = 0) =>
          \A id \in DropIds : ~aux.heap.objects[id + 1].live
    /\ aux.last.made =>
          IF aux.last.before.objects[aux.last.id + 1].refcount > 1
          THEN aux.heap = [aux.last.before EXCEPT !.objects[aux.last.id + 1].refcount = @ - 1]
          ELSE aux.heap.objects[aux.last.id + 1] = FreedSlot

\* C33: the last outside reference to a chain of three lists was dropped and
\* all three slots were vacated by the one call
ChainVacated ==
    /\ aux.last.made /\ aux.last.id = DropObjects - 1
    /\ \A id \in DropIds :
          /\ aux.last.before.objects[id + 1].live
          /\ aux.last.before.objects[id + 1].refcount = 1
          /\ ~aux.heap.objects[id + 1].live
    /\ aux.last.before.objects[3].data.items = <<VRef(1)>>
    /\ aux.last.before.objects[2].data.items = <<VRef(0)>>

\* C34: Dict::from_pairs releases every key and value it was given that
\* does not end up stored in the dict (the overwritten value and the
\* replaced key of a duplicate key, and every pair when an unhashable key
\* makes it fail): when it returns, each object's refcount is what it was
\* before the operands were evaluated plus its occurrences in the dict.
UnstoredPairsReleased ==
    aux.last.made =>
        \A id \in 0..(Len(aux.last.before.objects) - 1) :
            aux.last.after.objects[id + 1].refcount =
                aux.last.before.objects[id + 1].refcount
                + (IF aux.last.r.k = "Err" THEN 0
                   ELSE RefsIn(Dict_keys(aux.last.map), id)
                        + RefsIn(Dict_values(aux.last.map), id))

\* C35: a return value buffered for one statement is never handed to an
\* external call of a later statement: whenever a run that was suspended in
\* one statement is next suspended in another, the external-return buffer is
\* empty and its cursor is 0, so the later statement's call found nothing to
\* take and was surfaced to the host.
BufferClearedBetweenStatements ==
    [][(/\ progress.kind = "FunctionCall"
        /\ progress'.kind = "FunctionCall"
        /\ Len(calls') > Len(calls)
        /\ calls'[Len(calls')].index # calls[Len(calls)].index)
       => /\ run'.ns.ext_return_values = <<>>
          /\ run'.ns.next_ext_return_value = 0
          /\ take_ext_return_value(run'.ns, run'.heap).some = FALSE]_vars

\* C35: the run was given a value for a call of one statement and is now
\* suspended at a call of a later statement, with nothing buffered
SuspendedInLaterStatement ==
    /\ progress.kind = "FunctionCall"
    /\ Len(calls) >= 2
    /\ calls[Len(calls)].index > calls[Len(calls) - 1].index
    /\ Len(resumes) = Len(calls) - 1
    /\ run.ns.ext_return_values = <<>>

\* The clause state the n-th call, a record, is to carry: that of the latest
\* set_clause_state before it, unless a record in between has taken it
PosClauseFor(n) ==
    LET sets == {i \in 1..(n - 1) :
                    /\ aux.log[i].op = "set"
                    /\ \A j \in (i + 1)..(n - 1) : aux.log[j].op # "record"}
    IN  IF sets = {} THEN NoneOpt
        ELSE Some(aux.log[CHOOSE i \in sets : \A j \in sets : j <= i].arg)

\* The records not yet handed back after the first n calls, oldest first
RECURSIVE PosOutstanding(_)
PosOutstanding(n) ==
    IF n = 0 THEN <<>>
    ELSE LET before == PosOutstanding(n - 1) IN
         CASE aux.log[n].op = "record" ->
                Append(before, [index |-> aux.log[n].arg, clause_state |-> PosClauseFor(n)])
           [] aux.log[n].op = "next" ->
                IF before = <<>> THEN before ELSE SubSeq(before, 1, Len(before) - 1)
           [] OTHER -> before

\* C36: next() hands the recorded positions back latest first (the outermost
\* frame records last and resumes first), returns the default position once
\* none is left, and each position carries the clause state set since the
\* record before it, and no other.
PositionsReturnedInReverse ==
    \A n \in 1..Len(aux.log) :
        aux.log[n].op = "next" =>
            LET before == PosOutstanding(n - 1) IN
            aux.log[n].position =
                IF before = <<>> THEN [index |-> 0, clause_state |-> NoneOpt]
                ELSE before[Len(before)]

\* C36: a clause state was set, two frames recorded (the inner one first),
\* and three calls of next returned the outer position without clause state,
\* the inner one with it, and the default position
UnwoundAndResumed ==
    /\ Len(aux.log) = 6
    /\ aux.log[1].op = "set" /\ aux.log[1].arg = 1
    /\ aux.log[2].op = "record" /\ aux.log[2].arg = 2
    /\ aux.log[3].op = "record" /\ aux.log[3].arg = 1
    /\ aux.log[4].op = "next"
    /\ aux.log[4].position = [index |-> 1, clause_state |-> NoneOpt]
    /\ aux.log[5].op = "next"
    /\ aux.log[5].position = [index |-> 2, clause_state |-> Some(1)]
    /\ aux.log[6].op = "next"
    /\ aux.log[6].position = [index |-> 0, clause_state |-> NoneOpt]

\* C37: new_namespace checks the recursion depth before it charges memory,
\* and a call it refuses creates no namespace and takes no index from the
\* free list; a refusal by the depth check charges nothing.  A step that
\* leaves a refused call as the latest one without changing the active calls
\* leaves the namespaces as they were, leaves the tracker as it was when the
\* refusal is Recursion, and is a Recursion refusal whenever the depth limit
\* was reached.
RefusedCallTakesNothing ==
    [][(/\ lastCall'.made
        /\ lastCall'.res.kind # "Ok"
        /\ active' = active)
       => /\ cns' = cns
          /\ (lastCall'.res.kind = "Recursion" => ctrk' = ctrk)
          /\ (check_recursion_depth(ctrk, Len(cns.stack) - 1).kind # "Ok"
                => lastCall'.res.kind = "Recursion")]_vars

\* C37: the depth check refused a call while an index was on the free list
RefusedWithFreeIndex ==
    /\ lastCall.made
    /\ lastCall.res.kind = "Recursion"
    /\ Len(cns.reuse_ids) > 0
    /\ ctrk.current_memory = 0

\* C38: after any sequence of calls and returns the free list holds no index
\* twice and never the global index 0, and new_namespace never hands out the
\* index of a call that is still active: no index is active twice, and none is
\* both active and on the free list.
FreeListSound ==
    /\ \A i, j \in 1..Len(cns.reuse_ids) : cns.reuse_ids[i] = cns.reuse_ids[j] => i = j
    /\ \A i \in 1..Len(cns.reuse_ids) :
          /\ cns.reuse_ids[i] # GLOBAL_NS_IDX
          /\ cns.reuse_ids[i] < Len(cns.stack)
          /\ \A k \in 1..Len(active) : active[k] # cns.reuse_ids[i]
    /\ \A i, j \in 1..Len(active) : active[i] = active[j] => i = j
    /\ \A k \in 1..Len(active) : active[k] # GLOBAL_NS_IDX

\* C38: the index a call had returned to the free list is in use again by
\* the inner of two active calls: three calls were made on two namespaces
ReusedWhileOuterActive ==
    /\ Len(active) = 2
    /\ lastCall.made /\ lastCall.res.kind = "Ok" /\ lastCall.id = active[2]
    /\ ctrk.allocation_count = 3
    /\ Len(cns.stack) = 3
    /\ cns.reuse_ids = <<>>

\* C39: over any sequence of on_allocate, on_free and on_gc_complete calls a
\* refused on_allocate changes no counter, allocation_count never decreases
\* and never exceeds max_allocations, and current_memory never exceeds
\* max_memory and never goes below 0.
TrackerCountersBounded ==
    [][/\ trk'.limits = trk.limits
       /\ trk'.allocation_count >= trk.allocation_count
       /\ trk'.limits.max_allocations.some =>
             trk'.allocation_count <= trk'.limits.max_allocations.v
       /\ trk'.limits.max_memory.some =>
             trk'.current_memory <= trk'.limits.max_memory.v
       /\ trk'.current_memory >= 0
       /\ (Len(trkLog') > Len(trkLog) /\ trkLog'[Len(trkLog')].kind # "Ok") => trk' = trk]_vars

\* C39: allocations up to the allocation limit, all memory freed again (the
\* last on_free asking for more than was in use), and a further on_allocate
\* refused
RefusedAfterFreeingAll ==
    /\ trk.limits.max_allocations.some /\ trk.limits.max_memory.some
    /\ trk.allocation_count = trk.limits.max_allocations.v
    /\ trk.allocation_count >= 2
    /\ trk.current_memory = 0
    /\ trkLast.made /\ trkLast.before.current_memory = 0
    /\ trkLog[Len(trkLog)].kind = "Allocation"
    /\ \E i \in 1..(Len(trkLog) - 1) : trkLog[i].kind = "Memory"

====
